---- MODULE Spec2Model ----
(***************************************************************************)
(* Model of the Synapse core: the task entity (pkg/types/synapse.go), the  *)
(* JSONL durable store (internal/storage/jsonl.go) and the SQLite query    *)
(* cache (internal/storage/sqlite.go).                                     *)
(***************************************************************************)
EXTENDS Integers, Sequences, FiniteSets, TLC

VARIABLES
    synapses,   \* JSONLStore.synapses : map id -> task record
    nextID,     \* JSONLStore.nextID
    now,        \* wall clock read by time.Now()
    cache,      \* SQLiteCache: the tables synapses and blockers
    disk,       \* the storage directory: memory.jsonl and memory.jsonl.tmp
    issued,     \* history: the ids Create has returned on this store instance, and
                \* the largest id the map has held since the last Load
    ret,        \* the last call: operation, arguments and returned value
    mu,         \* JSONLStore.mu : the sync.RWMutex of the store
    threads     \* each thread's position: outside the store, or inside the
                \* critical section of one of its methods

vars == <<synapses, nextID, now, cache, disk, issued, ret, mu, threads>>

----------------------------------------------------------------------------
(* Bounds of the model *)

MaxTime == 3          \* the clock runs 0..MaxTime
MaxTimeout == 2       \* claim timeouts are drawn from 0..MaxTimeout
MaxID == 2            \* Create stops after this many ids
MaxEdges == 1         \* AddBlocker stops at this many blocked_by entries in the store
MaxBlockers == 2      \* blocked_by entries in a set of tasks given to Rebuild
MaxNotes == 1         \* AddNote stops at this many notes on a task
MaxPriority == 2      \* priorities are drawn from 0..MaxPriority

----------------------------------------------------------------------------
(* pkg/types/synapse.go *)

StatusOpen == "open"
StatusInProgress == "in-progress"
StatusBlocked == "blocked"
StatusReview == "review"
StatusDone == "done"

ValidStatuses == {StatusOpen, StatusInProgress, StatusBlocked, StatusReview, StatusDone}

\* ClaimedAt is a *time.Time; NilTime stands for the nil pointer
NilTime == -1

\* agent ids the callers pass; claimTask rejects the empty agent id
Agents == {"agentA", "agentB"}

NewSynapse(id, title, t) ==
    [ id           |-> id,
      title        |-> title,
      status       |-> StatusOpen,
      priority     |-> 0,
      blocked_by   |-> << >>,
      parent_id    |-> 0,
      assignee     |-> "",
      labels       |-> << >>,
      notes        |-> << >>,
      claimed_by   |-> "",
      claimed_at   |-> NilTime,
      completed_by |-> "",
      created_at   |-> t,
      updated_at   |-> t ]

MarkInProgress(s, t) == [s EXCEPT !.status = StatusInProgress, !.updated_at = t]

\* Claim with the test for a completed task left out
Claim_NoDoneCheck(s, agentID, timeout, t) ==
    IF s.claimed_by # "" /\ s.claimed_by # agentID /\ s.claimed_at # NilTime
          /\ t - s.claimed_at < timeout
    THEN [ok |-> FALSE, syn |-> s]
    ELSE [ok |-> TRUE,
          syn |-> [s EXCEPT !.claimed_by = agentID, !.claimed_at = t,
                            !.status = StatusInProgress, !.updated_at = t]]

\* Claim with the expiry comparison off by one (<= for <)
Claim_ExpiryOffByOne(s, agentID, timeout, t) ==
    IF s.status = StatusDone
    THEN [ok |-> FALSE, syn |-> s]
    ELSE IF s.claimed_by # "" /\ s.claimed_by # agentID /\ s.claimed_at # NilTime
               /\ t - s.claimed_at <= timeout
         THEN [ok |-> FALSE, syn |-> s]
         ELSE [ok |-> TRUE,
               syn |-> [s EXCEPT !.claimed_by = agentID, !.claimed_at = t,
                                 !.status = StatusInProgress, !.updated_at = t]]

\* Claim that holds the current holder to the timeout like any other agent
Claim_NoSelfReclaim(s, agentID, timeout, t) ==
    IF s.status = StatusDone
    THEN [ok |-> FALSE, syn |-> s]
    ELSE IF s.claimed_by # "" /\ s.claimed_at # NilTime /\ t - s.claimed_at < timeout
         THEN [ok |-> FALSE, syn |-> s]
         ELSE [ok |-> TRUE,
               syn |-> [s EXCEPT !.claimed_by = agentID, !.claimed_at = t,
                                 !.status = StatusInProgress, !.updated_at = t]]

\* Claim returns the boolean result and the task as the call leaves it
Claim(s, agentID, timeout, t) ==
    IF s.status = StatusDone
    THEN [ok |-> FALSE, syn |-> s]
    ELSE IF s.claimed_by # "" /\ s.claimed_by # agentID /\ s.claimed_at # NilTime
               /\ t - s.claimed_at < timeout
         THEN [ok |-> FALSE, syn |-> s]
         ELSE [ok |-> TRUE,
               syn |-> [s EXCEPT !.claimed_by = agentID, !.claimed_at = t,
                                 !.status = StatusInProgress, !.updated_at = t]]

\* ReleaseClaim that clears the agent and keeps the timestamp
ReleaseClaim_KeepsTime(s, t) ==
    [s EXCEPT !.claimed_by = "",
              !.status = IF s.status = StatusInProgress THEN StatusOpen ELSE s.status,
              !.updated_at = t]

\* ReleaseClaim that reopens the task whatever its status
ReleaseClaim_AlwaysOpen(s, t) ==
    [s EXCEPT !.claimed_by = "", !.claimed_at = NilTime, !.status = StatusOpen,
              !.updated_at = t]

ReleaseClaim(s, t) ==
    [s EXCEPT !.claimed_by = "",
              !.claimed_at = NilTime,
              !.status = IF s.status = StatusInProgress THEN StatusOpen ELSE s.status,
              !.updated_at = t]

\* IsClaimExpired with > for >=
IsClaimExpired_Strict(s, timeout, t) ==
    IF s.claimed_at = NilTime THEN TRUE ELSE t - s.claimed_at > timeout

IsClaimExpired(s, timeout, t) ==
    IF s.claimed_at = NilTime THEN TRUE ELSE t - s.claimed_at >= timeout

\* JSONLStore.ReleaseExpiredClaims: every task that has a claimant and whose
\* claim is expired is released; the result carries the number released
ReleaseExpiredClaims(m, timeout, t) ==
    LET expired == {id \in DOMAIN m :
                       m[id].claimed_by # "" /\ IsClaimExpired(m[id], timeout, t)}
    IN [count    |-> Cardinality(expired),
        synapses |-> [id \in DOMAIN m |->
                         IF id \in expired THEN ReleaseClaim(m[id], t) ELSE m[id]]]

MarkDone(s, t) == [s EXCEPT !.status = StatusDone, !.updated_at = t]

MarkDoneBy(s, agentID, t) ==
    [s EXCEPT !.status = StatusDone, !.completed_by = agentID, !.updated_at = t]

MarkBlocked(s, t) == [s EXCEPT !.status = StatusBlocked, !.updated_at = t]

Range(seq) == {seq[i] : i \in 1..Len(seq)}

\* the elements of a finite set of integers in ascending order: the i-th is
\* the element with i - 1 smaller ones
SortedSeq(S) ==
    [i \in 1..Cardinality(S) |-> CHOOSE x \in S : Cardinality({y \in S : y < x}) = i - 1]

\* the largest element of a finite set of integers, 0 for the empty set
MaxOf(S) == IF S = {} THEN 0 ELSE CHOOSE x \in S : \A y \in S : y <= x

\* IsReady that holds of open tasks only
IsReady_OpenOnly(s, doneIds) ==
    IF s.status # StatusOpen
    THEN FALSE
    ELSE \A i \in 1..Len(s.blocked_by) : s.blocked_by[i] \in doneIds

\* IsReady; isBlockerDone is passed as the set of ids for which it returns true
IsReady(s, doneIds) ==
    IF s.status = StatusInProgress \/ s.status = StatusReview \/ s.status = StatusDone
    THEN FALSE
    ELSE \A i \in 1..Len(s.blocked_by) : s.blocked_by[i] \in doneIds

\* AddBlocker that stamps updated_at also when the blocker is already listed
AddBlocker_Restamps(s, blockerID, t) ==
    IF \E i \in 1..Len(s.blocked_by) : s.blocked_by[i] = blockerID
    THEN [s EXCEPT !.updated_at = t]
    ELSE [s EXCEPT !.blocked_by = Append(s.blocked_by, blockerID), !.updated_at = t]

AddBlocker(s, blockerID, t) ==
    IF \E i \in 1..Len(s.blocked_by) : s.blocked_by[i] = blockerID
    THEN s
    ELSE [s EXCEPT !.blocked_by = Append(s.blocked_by, blockerID), !.updated_at = t]

\* removes the first occurrence of blockerID
RemoveBlocker(s, blockerID, t) ==
    IF \E i \in 1..Len(s.blocked_by) : s.blocked_by[i] = blockerID
    THEN LET i == CHOOSE k \in 1..Len(s.blocked_by) :
                      /\ s.blocked_by[k] = blockerID
                      /\ \A j \in 1..(k - 1) : s.blocked_by[j] # blockerID
         IN [s EXCEPT !.blocked_by = SubSeq(s.blocked_by, 1, i - 1)
                                       \o SubSeq(s.blocked_by, i + 1, Len(s.blocked_by)),
                      !.updated_at = t]
    ELSE s

AddNote(s, note, t) == [s EXCEPT !.notes = Append(s.notes, note), !.updated_at = t]

----------------------------------------------------------------------------
(* internal/storage/jsonl.go: queries over the in-memory map *)

\* the isDone closure of Ready with the map lookup's ok flag dropped
IsDoneIds_AbsentCountsAsDone(m) ==
    {id \in 1..(MaxID + 1) : id \notin DOMAIN m \/ m[id].status = StatusDone}

\* the isDone closure of Ready, as the set of ids it accepts
IsDoneIds(m) == {id \in DOMAIN m : m[id].status = StatusDone}

\* JSONLStore.All: the stored tasks by ascending id
All(m) == LET o == SortedSeq(DOMAIN m) IN [i \in 1..Len(o) |-> m[o[i]]]

\* JSONLStore.ByStatus: the tasks of the map with that status, sorted by id
ByStatus(m, status) ==
    LET o == SortedSeq({id \in DOMAIN m : m[id].status = status})
    IN [i \in 1..Len(o) |-> m[o[i]]]

\* JSONLStore.ByAssignee: the tasks whose assignee is that string, sorted by id
ByAssignee(m, assignee) ==
    LET o == SortedSeq({id \in DOMAIN m : m[id].assignee = assignee})
    IN [i \in 1..Len(o) |-> m[o[i]]]

ReadyIds(m) == {id \in DOMAIN m : IsReady(m[id], IsDoneIds(m))}

Perms(S) ==
    {f \in [1..Cardinality(S) -> S] : \A i, j \in 1..Cardinality(S) : f[i] = f[j] => i = j}

\* Ready without the sort: the ready tasks in the order the map gave them
Ready_Unsorted(m) == Perms(ReadyIds(m))

\* Ready: the ready tasks ordered by sort.Slice on descending priority.  The
\* map is ranged over in no fixed order and the sort is not stable, so tasks
\* of equal priority come out in any order.
Ready(m) ==
    {f \in Perms(ReadyIds(m)) :
        \A i, j \in 1..Len(f) : i < j => m[f[i]].priority >= m[f[j]].priority}

\* Create with the largest stored id plus one in place of the watermark
StoreCreate_MaxPlusOne(m, nid, title, t) ==
    LET id == MaxOf(DOMAIN m) + 1 IN
    [err |-> "", id |-> id,
     synapses |-> (id :> NewSynapse(id, title, t)) @@ [k \in DOMAIN m \ {id} |-> m[k]],
     nextID |-> id + 1]

\* JSONLStore.Create: the title is not looked at
StoreCreate(m, nid, title, t) ==
    [err |-> "", id |-> nid,
     synapses |-> (nid :> NewSynapse(nid, title, t)) @@ [k \in DOMAIN m \ {nid} |-> m[k]],
     nextID |-> nid + 1]

\* JSONLStore.Get
StoreGet(m, id) ==
    IF id \in DOMAIN m THEN [err |-> "", found |-> <<m[id]>>]
    ELSE [err |-> "not found", found |-> << >>]

\* Update that stores a task whose id is not in the map
StoreUpdate_Upsert(m, syn) ==
    [err |-> "", synapses |-> (syn.id :> syn) @@ [k \in DOMAIN m \ {syn.id} |-> m[k]]]

\* JSONLStore.Update
StoreUpdate(m, syn) ==
    IF syn.id \notin DOMAIN m THEN [err |-> "not found", synapses |-> m]
    ELSE [err |-> "", synapses |-> [m EXCEPT ![syn.id] = syn]]

\* Delete that also takes the id out of every blocked_by list that names it
StoreDelete_Cascade(m, id) ==
    IF id \notin DOMAIN m THEN [err |-> "not found", synapses |-> m]
    ELSE [err |-> "",
          synapses |-> [k \in DOMAIN m \ {id} |->
                           [m[k] EXCEPT !.blocked_by =
                               SelectSeq(@, LAMBDA b : b # id)]]]

\* JSONLStore.Delete
StoreDelete(m, id) ==
    IF id \notin DOMAIN m THEN [err |-> "not found", synapses |-> m]
    ELSE [err |-> "", synapses |-> [k \in DOMAIN m \ {id} |-> m[k]]]

----------------------------------------------------------------------------
(* internal/storage/jsonl.go: the durable file.  A file is absent or holds  *)
(* a sequence of lines; a line written by Save is the JSON object of one    *)
(* task, modelled as the function from the keys it holds to their values.   *)

NoFile == [exists |-> FALSE, lines |-> << >>]

File(lines) == [exists |-> TRUE, lines |-> lines]

\* the storage directory before Init
NoDisk == [memory |-> NoFile, tmp |-> NoFile]

NoneIssued == [all |-> {}, sinceLoad |-> {}, high |-> 0]

\* the zero value of every field of types.Synapse
ZeroSynapse ==
    [ id           |-> 0,
      title        |-> "",
      status       |-> "",
      priority     |-> 0,
      blocked_by   |-> << >>,
      parent_id    |-> 0,
      assignee     |-> "",
      labels       |-> << >>,
      notes        |-> << >>,
      claimed_by   |-> "",
      claimed_at   |-> NilTime,
      completed_by |-> "",
      created_at   |-> 0,
      updated_at   |-> 0 ]

\* the fields whose json tag carries omitempty
OmitEmpty ==
    {"priority", "blocked_by", "parent_id", "assignee", "labels", "notes",
     "claimed_by", "claimed_at", "completed_by"}

\* json.Encoder.Encode of one task: an omitempty field with its zero value is
\* left out of the object
Encode(syn) ==
    [k \in {f \in DOMAIN ZeroSynapse : f \notin OmitEmpty \/ syn[f] # ZeroSynapse[f]}
        |-> syn[k]]

\* json.Unmarshal of one line into a zero Synapse: a key that is missing
\* leaves the zero value
Decode(line) ==
    [k \in DOMAIN ZeroSynapse |-> IF k \in DOMAIN line THEN line[k] ELSE ZeroSynapse[k]]

\* bufio.MaxScanTokenSize, the line limit of the bufio.Scanner Load reads with
MaxScanTokenSize == 65536

\* the texts update_task and add_note store: a short one and one of 70000 bytes
ShortNote == "note"
LongNote == "a note of 70000 bytes"

NoteBytes(n) == IF n = LongNote THEN 70000 ELSE 4

RECURSIVE SumBytes(_, _)
SumBytes(notes, i) ==
    IF i > Len(notes) THEN 0 ELSE NoteBytes(notes[i]) + SumBytes(notes, i + 1)

\* a lower bound of the byte length of a line: the text of its notes
LineBytes(line) == IF "notes" \in DOMAIN line THEN SumBytes(line.notes, 1) ELSE 0

\* the lines Save writes: one per task, sorted by id
EncodeAll(m) == LET o == SortedSeq(DOMAIN m) IN [i \in 1..Len(o) |-> Encode(m[o[i]])]

\* a line of no bytes, and a line that json.Unmarshal rejects
EmptyLine == << >>
Malformed == [malformed |-> TRUE]

\* the scan loop of Load from line i on, with the map and the watermark built
\* so far; a line that does not fit the scanner's buffer ends the scan with
\* ErrTooLong and Load returns what it has built; an empty line is skipped; a
\* malformed line makes Load return the parse error with its line number
RECURSIVE LoadLines(_, _, _, _)
LoadLines(lines, i, m, nid) ==
    IF i > Len(lines) THEN [err |-> "", line |-> 0, synapses |-> m, nextID |-> nid]
    ELSE IF LineBytes(lines[i]) >= MaxScanTokenSize
         THEN [err |-> "scan memory file", line |-> 0, synapses |-> m, nextID |-> nid]
    ELSE IF lines[i] = EmptyLine
         THEN LoadLines(lines, i + 1, m, nid)
    ELSE IF lines[i] = Malformed
         THEN [err |-> "parse line", line |-> i, synapses |-> m, nextID |-> nid]
         ELSE LET syn == Decode(lines[i])
              IN LoadLines(lines, i + 1,
                           (syn.id :> syn) @@ [k \in DOMAIN m \ {syn.id} |-> m[k]],
                           IF syn.id >= nid THEN syn.id + 1 ELSE nid)

\* where a Save may fail: nowhere, or at one of its four error returns (for the
\* encoder, at the k-th task)
SaveFailures(m) ==
    {[at |-> a, k |-> 0] : a \in {"", "create temp file", "close temp file",
                                  "rename temp file"}}
    \cup {[at |-> "encode synapse", k |-> k] : k \in 1..Cardinality(DOMAIN m)}

\* Save that writes the durable file in place, without the temporary file
Save_InPlace(m, d, fail) ==
    LET lines == EncodeAll(m) IN
    IF fail.at = "create temp file" THEN [err |-> fail.at, disk |-> d]
    ELSE IF fail.at = "encode synapse"
         THEN [err |-> fail.at,
               disk |-> [d EXCEPT !.memory = File(SubSeq(lines, 1, fail.k - 1))]]
    ELSE IF fail.at = "close temp file" \/ fail.at = "rename temp file"
         THEN [err |-> fail.at, disk |-> [d EXCEPT !.memory = File(lines)]]
    ELSE [err |-> "", disk |-> [d EXCEPT !.memory = File(lines)]]

\* Save: the tasks sorted by id are encoded into memory.jsonl.tmp, which is
\* then renamed over memory.jsonl; every error return after os.Create removes
\* the temporary file
Save(m, d, fail) ==
    LET lines == EncodeAll(m) IN
    IF fail.at = "create temp file" THEN [err |-> fail.at, disk |-> d]
    ELSE IF fail.at \in {"encode synapse", "close temp file", "rename temp file"}
         THEN [err |-> fail.at, disk |-> [d EXCEPT !.tmp = NoFile]]
    ELSE [err |-> "", disk |-> [memory |-> File(lines), tmp |-> NoFile]]

\* Load that rebuilds the map and leaves the watermark as it was
Load_KeepsWatermark(m, nid, d, openFails) ==
    IF ~d.memory.exists
    THEN [err |-> "", line |-> 0, synapses |-> m, nextID |-> nid, read |-> FALSE]
    ELSE IF openFails
         THEN [err |-> "open memory file", line |-> 0, synapses |-> m, nextID |-> nid,
               read |-> FALSE]
         ELSE [LoadLines(d.memory.lines, 1, << >>, 1) EXCEPT !.nextID = nid]
              @@ [read |-> TRUE]

\* Load: a missing file leaves the store as it is; otherwise the map and the
\* watermark are reset and rebuilt from the lines
Load(m, nid, d, openFails) ==
    IF ~d.memory.exists
    THEN [err |-> "", line |-> 0, synapses |-> m, nextID |-> nid, read |-> FALSE]
    ELSE IF openFails
         THEN [err |-> "open memory file", line |-> 0, synapses |-> m, nextID |-> nid,
               read |-> FALSE]
         ELSE [read |-> TRUE] @@ LoadLines(d.memory.lines, 1, << >>, 1)

----------------------------------------------------------------------------
(* internal/storage/sqlite.go.  The connection is opened without the        *)
(* foreign_keys pragma, so the FOREIGN KEY clauses of the schema are not    *)
(* enforced: TestSQLiteCache_InsertUpdateDelete inserts a task blocked by   *)
(* ids that have no row and expects both edges back.  The primary keys are  *)
(* enforced.                                                                *)

\* nullString: the empty string is stored as NULL
nullString(str) == [valid |-> str # "", v |-> str]

\* nullInt: 0 is stored as NULL
nullInt(i) == [valid |-> i # 0, v |-> i]

\* the column values of INSERT INTO synapses
Row(syn) ==
    [ id         |-> syn.id,
      title      |-> syn.title,
      status     |-> syn.status,
      parent_id  |-> nullInt(syn.parent_id),
      assignee   |-> nullString(syn.assignee),
      created_at |-> syn.created_at,
      updated_at |-> syn.updated_at ]

\* the two tables after Init on a new database file
EmptyCache == [synapses |-> << >>, blockers |-> {}]

\* INSERT INTO blockers for each entry of blocked_by in turn, from entry i on;
\* the composite primary key rejects an edge that is already there
RECURSIVE InsertBlockers(_, _, _, _)
InsertBlockers(c, id, blocked_by, i) ==
    IF i > Len(blocked_by) THEN [ok |-> TRUE, err |-> "", cache |-> c]
    ELSE IF <<id, blocked_by[i]>> \in c.blockers
         THEN [ok |-> FALSE, err |-> "insert blocker", cache |-> c]
    ELSE InsertBlockers([c EXCEPT !.blockers = @ \cup {<<id, blocked_by[i]>>}],
                        id, blocked_by, i + 1)

\* INSERT INTO synapses, then the blockers; the primary key rejects a second
\* row with the same id
InsertSynapse(c, syn) ==
    IF syn.id \in DOMAIN c.synapses THEN [ok |-> FALSE, err |-> "insert synapse", cache |-> c]
    ELSE InsertBlockers([c EXCEPT !.synapses = (syn.id :> Row(syn)) @@ @],
                        syn.id, syn.blocked_by, 1)

\* the insert loop of Rebuild from element i on; the first failing statement
\* stops it
RECURSIVE InsertAll(_, _, _)
InsertAll(c, S, i) ==
    IF i > Len(S) THEN [ok |-> TRUE, err |-> "", cache |-> c]
    ELSE LET r == InsertSynapse(c, S[i])
         IN IF r.ok THEN InsertAll(r.cache, S, i + 1) ELSE r

\* Rebuild that appends to the tables instead of clearing them first
Rebuild_NoClear(c, S) ==
    LET r == InsertAll(c, S, 1)
    IN IF r.ok THEN r ELSE [r EXCEPT !.cache = c]

\* Rebuild whose error path keeps what the transaction wrote so far
Rebuild_NoRollback(c, S) == InsertAll(EmptyCache, S, 1)

\* Rebuild: one transaction that clears both tables and inserts S; the
\* deferred Rollback restores the tables when a statement fails
Rebuild(c, S) ==
    LET r == InsertAll(EmptyCache, S, 1)
    IN IF r.ok THEN r ELSE [r EXCEPT !.cache = c]

\* Insert whose error path keeps what the transaction wrote so far
CacheInsert_NoRollback(c, syn) == InsertSynapse(c, syn)

\* SQLiteCache.Insert: one transaction that inserts the row and the blockers;
\* the deferred Rollback restores the tables when a statement fails
CacheInsert(c, syn) ==
    LET r == InsertSynapse(c, syn)
    IN IF r.ok THEN r ELSE [r EXCEPT !.cache = c]

\* UPDATE synapses SET ... WHERE id = ?: created_at is not in the SET list
UpdateRow(row, syn) ==
    [row EXCEPT !.title = syn.title, !.status = syn.status,
                !.parent_id = nullInt(syn.parent_id),
                !.assignee = nullString(syn.assignee),
                !.updated_at = syn.updated_at]

\* Update that adds the new blockers to the old ones
CacheUpdate_KeepsOldBlockers(c, syn) ==
    IF syn.id \notin DOMAIN c.synapses THEN [ok |-> FALSE, err |-> "not found", cache |-> c]
    ELSE LET c1 == [c EXCEPT !.synapses[syn.id] = UpdateRow(@, syn)]
             r  == InsertBlockers([c1 EXCEPT !.blockers =
                                      {e \in @ : e[1] # syn.id \/ e[2] \notin Range(syn.blocked_by)}],
                                  syn.id, syn.blocked_by, 1)
         IN IF r.ok THEN r ELSE [r EXCEPT !.cache = c]

\* SQLiteCache.Update: one transaction that updates the row, not found when
\* no row was affected, deletes the task's blockers and inserts those of
\* blocked_by; the deferred Rollback restores the tables on every error
CacheUpdate(c, syn) ==
    IF syn.id \notin DOMAIN c.synapses THEN [ok |-> FALSE, err |-> "not found", cache |-> c]
    ELSE LET c1 == [c EXCEPT !.synapses[syn.id] = UpdateRow(@, syn)]
             r  == InsertBlockers([c1 EXCEPT !.blockers = {e \in @ : e[1] # syn.id}],
                                  syn.id, syn.blocked_by, 1)
         IN IF r.ok THEN r ELSE [r EXCEPT !.cache = c]

\* SQLiteCache.Delete: DELETE FROM synapses WHERE id = ?, not found when no
\* row was affected.  The blockers table is not named and, foreign keys being
\* off, ON DELETE CASCADE does not run.
CacheDelete(c, id) ==
    IF id \notin DOMAIN c.synapses THEN [ok |-> FALSE, err |-> "not found", cache |-> c]
    ELSE [ok |-> TRUE, err |-> "",
          cache |-> [c EXCEPT !.synapses = [k \in DOMAIN c.synapses \ {id} |-> c.synapses[k]]]]

\* loadAllBlockers: blocker ids of one task, ORDER BY blocker_id
LoadBlockers(c, id) == SortedSeq({e[2] : e \in {x \in c.blockers : x[1] = id}})

\* scanSynapses on one row: the columns the table has; every other field of
\* the task keeps its zero value
Scan(c, id) ==
    LET row == c.synapses[id] IN
    [ id           |-> row.id,
      title        |-> row.title,
      status       |-> row.status,
      priority     |-> 0,
      blocked_by   |-> LoadBlockers(c, id),
      parent_id    |-> IF row.parent_id.valid THEN row.parent_id.v ELSE 0,
      assignee     |-> IF row.assignee.valid THEN row.assignee.v ELSE "",
      labels       |-> << >>,
      notes        |-> << >>,
      claimed_by   |-> "",
      claimed_at   |-> NilTime,
      completed_by |-> "",
      created_at   |-> row.created_at,
      updated_at   |-> row.updated_at ]

ScanAll(c, ids) == LET o == SortedSeq(ids) IN [i \in 1..Len(o) |-> Scan(c, o[i])]

\* SQLiteCache.All: SELECT ... ORDER BY id
CacheAll(c) == ScanAll(c, DOMAIN c.synapses)

\* the WHERE clause of SQLiteCache.Ready and of the ready count of GetStats
CacheReadyIds(c) ==
    {id \in DOMAIN c.synapses :
        /\ c.synapses[id].status \in {"open", "blocked"}
        /\ ~ \E e \in c.blockers :
               /\ e[1] = id
               /\ e[2] \in DOMAIN c.synapses
               /\ c.synapses[e[2]].status # "done"}

\* SQLiteCache.Ready
CacheReady(c) == ScanAll(c, CacheReadyIds(c))

\* SQLiteCache.ByStatus
CacheByStatus(c, status) ==
    ScanAll(c, {id \in DOMAIN c.synapses : c.synapses[id].status = status})

\* SQLiteCache.ByAssignee: WHERE assignee = ? is never true of a NULL column
CacheByAssignee(c, assignee) ==
    ScanAll(c, {id \in DOMAIN c.synapses :
                   c.synapses[id].assignee.valid /\ c.synapses[id].assignee.v = assignee})

\* SQLiteCache.Get
CacheGet(c, id) ==
    IF id \in DOMAIN c.synapses THEN [ok |-> TRUE, syn |-> Scan(c, id)]
    ELSE [ok |-> FALSE, syn |-> NewSynapse(0, "", 0)]

\* SQLiteCache.GetStats without the file size
GetStats(c) ==
    [ SynapseCount |-> Cardinality(DOMAIN c.synapses),
      BlockerCount |-> Cardinality(c.blockers),
      ReadyCount   |-> Cardinality(CacheReadyIds(c)) ]

\* createTestSynapses, the fixture of the cache tests
TestSynapses ==
    << [NewSynapse(1, "Design API", 0) EXCEPT
            !.status = StatusDone, !.assignee = "architect"],
       [NewSynapse(2, "Implement handlers", 0) EXCEPT
            !.assignee = "backend", !.blocked_by = <<1>>],
       [NewSynapse(3, "Write tests", 0) EXCEPT
            !.status = StatusBlocked, !.assignee = "backend", !.blocked_by = <<2>>],
       [NewSynapse(4, "Deploy to staging", 0) EXCEPT !.blocked_by = <<1, 2>>],
       [NewSynapse(5, "Update docs", 0) EXCEPT
            !.status = StatusInProgress, !.assignee = "tech-writer"] >>

\* the cache of TestSQLiteCache_Ready after its Rebuild
TestCache == Rebuild(EmptyCache, TestSynapses).cache

----------------------------------------------------------------------------
(* JSONLStore.mu.  A method takes the lock on entry and releases it by a     *)
(* deferred unlock on every return.  Lock waits until no thread holds the    *)
(* mutex; RLock waits until no thread holds it for writing.                  *)

Threads == {"t1", "t2"}

\* the methods of the store that the threads call
Methods ==
    {"Create", "Update", "Delete", "Load", "ReleaseExpiredClaims",
     "Get", "All", "Ready", "Save"}

\* every method taking the read lock except for Create, Update and Delete
LockOf_LoadReads(op) ==
    IF op \in {"Create", "Update", "Delete"} THEN "Lock" ELSE "RLock"

\* the first statement of each method: s.mu.Lock() or s.mu.RLock()
LockOf(op) ==
    CASE op = "Load"   -> "Lock"
      [] op = "Save"   -> "RLock"
      [] op = "Create" -> "Lock"
      [] op = "Get"    -> "RLock"
      [] op = "Update" -> "Lock"
      [] op = "Delete" -> "Lock"
      [] op = "All"    -> "RLock"
      [] op = "Ready"  -> "RLock"
      [] op = "ReleaseExpiredClaims" -> "Lock"

\* the mutex with no holder: no writer, and a reader count of 0
Unlocked == [w |-> FALSE, r |-> 0]

\* a thread that is in no method of the store
Idle == [pc |-> "idle", op |-> ""]

\* whether Lock or RLock returns at once on mutex m
CanAcquire(m, kind) == IF kind = "Lock" THEN ~m.w /\ m.r = 0 ELSE ~m.w

\* the mutex after Lock or RLock has returned
Acquire(m, kind) == IF kind = "Lock" THEN [m EXCEPT !.w = TRUE] ELSE [m EXCEPT !.r = @ + 1]

\* the mutex after Unlock or RUnlock
Unlock(m, kind) == IF kind = "Lock" THEN [m EXCEPT !.w = FALSE] ELSE [m EXCEPT !.r = @ - 1]

\* the store used by one caller at a time: the mutex is free between calls
OneCaller == mu = Unlocked /\ threads = [t \in Threads |-> Idle]

----------------------------------------------------------------------------
(* The last call.  Every action records its own operation in ret, so a step *)
(* with ret'.op = "Claim" is a step of the Claim action.                    *)

Call(op, id, agent, timeout, ok, holder) ==
    [op |-> op, id |-> id, agent |-> agent, timeout |-> timeout, ok |-> ok,
     holder |-> holder, out |-> << >>, err |-> ""]

NoCall == Call("none", 0, "", 0, TRUE, "")

Timeouts == 0..MaxTimeout

----------------------------------------------------------------------------
(* The claim state machine: a task reached through Get, the entity methods  *)
(* called on the pointer Get returned.  Every method touches its receiver   *)
(* only, so one task shows all of their behaviour.                          *)

\* the store right after Create("t") on a new store: one fresh task
InitClaim ==
    /\ synapses = (1 :> NewSynapse(1, "t", 0))
    /\ nextID = 2
    /\ now = 0
    /\ cache = EmptyCache
    /\ disk = NoDisk
    /\ issued = [all |-> {1}, sinceLoad |-> {1}, high |-> 1]
    /\ ret = NoCall
    /\ OneCaller

\* time passes between two calls
Tick ==
    /\ now < MaxTime
    /\ now' = now + 1
    /\ ret' = Call("Tick", 0, "", 0, TRUE, "")
    /\ UNCHANGED <<mu, threads, synapses, nextID, cache, disk, issued>>

ClaimStep ==
    \E id \in DOMAIN synapses, a \in Agents, timeout \in Timeouts :
        LET r == Claim(synapses[id], a, timeout, now) IN
        /\ synapses' = [synapses EXCEPT ![id] = r.syn]
        /\ ret' = Call("Claim", id, a, timeout, r.ok, synapses[id].claimed_by)
        /\ UNCHANGED <<mu, threads, nextID, now, cache, disk, issued>>

ReleaseClaimStep ==
    \E id \in DOMAIN synapses :
        /\ synapses' = [synapses EXCEPT ![id] = ReleaseClaim(synapses[id], now)]
        /\ ret' = Call("ReleaseClaim", id, "", 0, TRUE, synapses[id].claimed_by)
        /\ UNCHANGED <<mu, threads, nextID, now, cache, disk, issued>>

MarkInProgressStep ==
    \E id \in DOMAIN synapses :
        /\ synapses' = [synapses EXCEPT ![id] = MarkInProgress(synapses[id], now)]
        /\ ret' = Call("MarkInProgress", id, "", 0, TRUE, "")
        /\ UNCHANGED <<mu, threads, nextID, now, cache, disk, issued>>

\* MarkDone that also promotes to open every blocked task it made ready
MarkDoneStep_Promotes ==
    \E id \in DOMAIN synapses :
        LET m == [synapses EXCEPT ![id] = MarkDone(synapses[id], now)] IN
        /\ synapses' = [k \in DOMAIN m |->
                           IF /\ m[k].status = StatusBlocked
                              /\ k \in ReadyIds(m)
                              /\ k \notin ReadyIds(synapses)
                           THEN [m[k] EXCEPT !.status = StatusOpen]
                           ELSE m[k]]
        /\ ret' = Call("MarkDone", id, "", 0, TRUE, "")
        /\ UNCHANGED <<mu, threads, nextID, now, cache, disk, issued>>

MarkDoneStep ==
    \E id \in DOMAIN synapses :
        /\ synapses' = [synapses EXCEPT ![id] = MarkDone(synapses[id], now)]
        /\ ret' = Call("MarkDone", id, "", 0, TRUE, "")
        /\ UNCHANGED <<mu, threads, nextID, now, cache, disk, issued>>

MarkDoneByStep ==
    \E id \in DOMAIN synapses, a \in Agents :
        /\ synapses' = [synapses EXCEPT ![id] = MarkDoneBy(synapses[id], a, now)]
        /\ ret' = Call("MarkDoneBy", id, a, 0, TRUE, "")
        /\ UNCHANGED <<mu, threads, nextID, now, cache, disk, issued>>

MarkBlockedStep ==
    \E id \in DOMAIN synapses :
        /\ synapses' = [synapses EXCEPT ![id] = MarkBlocked(synapses[id], now)]
        /\ ret' = Call("MarkBlocked", id, "", 0, TRUE, "")
        /\ UNCHANGED <<mu, threads, nextID, now, cache, disk, issued>>

TotalEdges(m) ==
    LET RECURSIVE Sum(_)
        Sum(S) == IF S = {} THEN 0
                  ELSE LET x == CHOOSE y \in S : TRUE
                       IN Len(m[x].blocked_by) + Sum(S \ {x})
    IN Sum(DOMAIN m)

AddBlockerStep ==
    \E id \in DOMAIN synapses, b \in 1..MaxID :
        /\ TotalEdges(synapses) < MaxEdges
        /\ synapses' = [synapses EXCEPT ![id] = AddBlocker(synapses[id], b, now)]
        /\ ret' = Call("AddBlocker", id, "", 0, TRUE, "")
        /\ UNCHANGED <<mu, threads, nextID, now, cache, disk, issued>>

RemoveBlockerStep ==
    \E id \in DOMAIN synapses, b \in 1..MaxID :
        /\ synapses' = [synapses EXCEPT ![id] = RemoveBlocker(synapses[id], b, now)]
        /\ ret' = Call("RemoveBlocker", id, "", 0, TRUE, "")
        /\ UNCHANGED <<mu, threads, nextID, now, cache, disk, issued>>

AddNoteStep ==
    \E id \in DOMAIN synapses :
        /\ Len(synapses[id].notes) < MaxNotes
        /\ synapses' = [synapses EXCEPT ![id] = AddNote(synapses[id], ShortNote, now)]
        /\ ret' = Call("AddNote", id, "", 0, TRUE, "")
        /\ UNCHANGED <<mu, threads, nextID, now, cache, disk, issued>>

\* JSONLStore.ReleaseExpiredClaims; ret.id carries the number of claims released
ReleaseExpiredClaimsStep ==
    \E timeout \in Timeouts :
        LET r == ReleaseExpiredClaims(synapses, timeout, now) IN
        /\ synapses' = r.synapses
        /\ ret' = Call("ReleaseExpiredClaims", r.count, "", timeout, TRUE, "")
        /\ UNCHANGED <<mu, threads, nextID, now, cache, disk, issued>>

NextClaim ==
    \/ Tick
    \/ ClaimStep
    \/ ReleaseClaimStep
    \/ MarkInProgressStep
    \/ MarkDoneStep
    \/ MarkDoneByStep
    \/ MarkBlockedStep
    \/ AddBlockerStep
    \/ RemoveBlockerStep
    \/ AddNoteStep
    \/ ReleaseExpiredClaimsStep

SpecClaim == InitClaim /\ [][NextClaim]_vars

----------------------------------------------------------------------------
(* Claims about Synapse.Claim *)

\* C1: Claim exclusivity over time.  A Claim on an unclaimed task that is not
\* done returns true and records the caller; a Claim by another agent while
\* now - claimed_at < timeout returns false and leaves the task as it was; a
\* Claim by another agent once now - claimed_at >= timeout returns true and
\* records the new caller.
C1_ClaimExclusivity ==
    [][ \A id \in DOMAIN synapses :
          (ret'.op = "Claim" /\ ret'.id = id) =>
            LET s  == synapses[id]
                s2 == synapses'[id]
                B  == ret'.agent
                other == s.claimed_by # "" /\ s.claimed_by # B /\ s.claimed_at # NilTime
            IN  /\ (s.status # StatusDone /\ s.claimed_by = "")
                      => (ret'.ok /\ s2.claimed_by = B)
                /\ (other /\ now - s.claimed_at < ret'.timeout)
                      => (~ret'.ok /\ s2 = s)
                /\ (s.status # StatusDone /\ other /\ now - s.claimed_at >= ret'.timeout)
                      => (ret'.ok /\ s2.claimed_by = B /\ s2.claimed_at = now)
      ]_vars

\* an agent displaced another agent's claim after a positive timeout ran out
C1_Witness ==
    /\ ret.op = "Claim" /\ ret.ok /\ ret.timeout > 0
    /\ ret.holder # "" /\ ret.holder # ret.agent
    /\ synapses[ret.id].claimed_by = ret.agent

\* C7: a done task can never be claimed.  Claim on a task whose status is
\* done returns false for every agent and timeout and changes no field.
C7_DoneNeverClaimed ==
    [][ \A id \in DOMAIN synapses :
          (ret'.op = "Claim" /\ ret'.id = id /\ synapses[id].status = StatusDone)
             => (~ret'.ok /\ synapses'[id] = synapses[id])
      ]_vars

\* the agent recorded in claimed_by tried to claim its own task after it was done
C7_Witness ==
    /\ ret.op = "Claim" /\ ~ret.ok
    /\ synapses[ret.id].status = StatusDone
    /\ synapses[ret.id].claimed_by = ret.agent

\* C11: claimed_by is non-empty if and only if claimed_at is set, in every
\* state reached from a fresh task by Claim with a non-empty agent id,
\* ReleaseClaim, MarkInProgress, MarkDone, MarkDoneBy, MarkBlocked,
\* AddBlocker, RemoveBlocker, AddNote and ReleaseExpiredClaims.
C11_ClaimFieldsTogether ==
    \A id \in DOMAIN synapses :
        synapses[id].claimed_by # "" <=> synapses[id].claimed_at # NilTime

\* ReleaseExpiredClaims has just released the expired claim of a task, which
\* left it with neither field
C11_Witness ==
    /\ ret.op = "ReleaseExpiredClaims" /\ ret.id = 1 /\ ret.timeout > 0
    /\ \E id \in DOMAIN synapses :
          /\ synapses[id].claimed_by = "" /\ synapses[id].claimed_at = NilTime
          /\ synapses[id].updated_at = now
          /\ synapses[id].created_at < now

\* C12 as stated: once a task's status is done, none of MarkInProgress,
\* MarkBlocked, MarkDone, MarkDoneBy, Claim, ReleaseClaim, AddBlocker,
\* RemoveBlocker, AddNote and ReleaseExpiredClaims changes its status.
C12_DoneIsTerminal ==
    [][ \A id \in DOMAIN synapses :
          synapses[id].status = StatusDone => synapses'[id].status = StatusDone ]_vars

----------------------------------------------------------------------------
(* The entity methods on a task of any field values, as json.Unmarshal may  *)
(* leave it from a line of memory.jsonl: any status, a claimant with or      *)
(* without a claim time, any blocked_by without duplicates.                  *)

\* the sequences without duplicates of at most n elements of S
NoDupSeqs(S, n) ==
    {f \in UNION {[1..k -> S] : k \in 0..n} :
        \A i, j \in 1..Len(f) : f[i] = f[j] => i = j}

InitEntity ==
    /\ \E st \in ValidStatuses, by \in {""} \cup Agents, at \in {NilTime, 0} :
         \E bb \in NoDupSeqs(1..MaxID, MaxBlockers), cb \in {"", "agentA"} :
           synapses = (1 :> [NewSynapse(1, "t", 0) EXCEPT
                               !.status = st, !.claimed_by = by, !.claimed_at = at,
                               !.blocked_by = bb, !.completed_by = cb])
    /\ nextID = 2
    /\ now = 0
    /\ cache = EmptyCache
    /\ disk = NoDisk
    /\ issued = NoneIssued
    /\ ret = NoCall
    /\ OneCaller

\* AddBlocker with any blocker id; ret.out carries the blocker id
AddBlockerAnyStep ==
    \E id \in DOMAIN synapses, b \in 1..MaxID :
        LET s2 == AddBlocker(synapses[id], b, now) IN
        /\ Len(s2.blocked_by) <= MaxBlockers
        /\ synapses' = [synapses EXCEPT ![id] = s2]
        /\ ret' = [Call("AddBlocker", id, "", 0, TRUE, "") EXCEPT !.out = <<b>>]
        /\ UNCHANGED <<mu, threads, nextID, now, cache, disk, issued>>

\* RemoveBlocker with any blocker id; ret.out carries the blocker id
RemoveBlockerAnyStep ==
    \E id \in DOMAIN synapses, b \in 1..MaxID :
        /\ synapses' = [synapses EXCEPT ![id] = RemoveBlocker(synapses[id], b, now)]
        /\ ret' = [Call("RemoveBlocker", id, "", 0, TRUE, "") EXCEPT !.out = <<b>>]
        /\ UNCHANGED <<mu, threads, nextID, now, cache, disk, issued>>

NextEntity ==
    \/ Tick
    \/ ClaimStep
    \/ ReleaseClaimStep
    \/ AddBlockerAnyStep
    \/ RemoveBlockerAnyStep

SpecEntity == InitEntity /\ [][NextEntity]_vars

\* C23: Claim(agent, timeout) at time now returns true exactly when the task
\* is not done and claimed_by is empty, or is the agent, or claimed_at is
\* unset, or now - claimed_at >= timeout.  On true it sets claimed_by,
\* claimed_at = now, status = in-progress and updated_at = now and nothing
\* else; on false it changes nothing.  blocked_by plays no part.
C23_ClaimOutcome ==
    [][ ret'.op = "Claim" =>
          LET s  == synapses[ret'.id]
              s2 == synapses'[ret'.id]
              expect == /\ s.status # StatusDone
                        /\ \/ s.claimed_by = ""
                           \/ s.claimed_by = ret'.agent
                           \/ s.claimed_at = NilTime
                           \/ now - s.claimed_at >= ret'.timeout
          IN /\ ret'.ok = expect
             /\ s2 = IF expect
                     THEN [s EXCEPT !.claimed_by = ret'.agent, !.claimed_at = now,
                                    !.status = StatusInProgress, !.updated_at = now]
                     ELSE s
      ]_vars

\* the holder of a task with a blocker claimed it again before the timeout
\* of the call had passed, and claimed_at was refreshed
C23_Witness ==
    /\ ret.op = "Claim" /\ ret.ok /\ ret.holder = ret.agent
    /\ synapses[ret.id].blocked_by # << >>
    /\ synapses[ret.id].claimed_at = now
    /\ now > 0 /\ now < ret.timeout

\* C24: ReleaseClaim clears claimed_by and claimed_at; the status becomes
\* open exactly when it was in-progress and is otherwise kept; blocked_by,
\* priority and completed_by are kept.
C24_ReleaseClaimOutcome ==
    [][ ret'.op = "ReleaseClaim" =>
          LET s  == synapses[ret'.id]
              s2 == synapses'[ret'.id]
          IN /\ s2.claimed_by = "" /\ s2.claimed_at = NilTime
             /\ s2.status = IF s.status = StatusInProgress THEN StatusOpen ELSE s.status
             /\ s2.blocked_by = s.blocked_by
             /\ s2.priority = s.priority
             /\ s2.completed_by = s.completed_by
      ]_vars

\* a claimed task with a blocker that is not done was released: it is open,
\* unclaimed, and not ready
C24_Witness ==
    /\ ret.op = "ReleaseClaim" /\ ret.holder # ""
    /\ synapses[ret.id].status = StatusOpen
    /\ synapses[ret.id].blocked_by # << >>
    /\ ret.id \notin ReadyIds(synapses)

\* the number of places of seq that hold x
Occurrences(seq, x) == Cardinality({i \in 1..Len(seq) : seq[i] = x})

\* C26: AddBlocker(x) leaves x exactly once in blocked_by, and changes
\* nothing at all when x was listed; RemoveBlocker(x) leaves no x, and changes
\* nothing at all when x was not listed; neither touches another id, so a
\* blocked_by without duplicates stays without duplicates.
C26_BlockerSetOperations ==
    [][ (ret'.op \in {"AddBlocker", "RemoveBlocker"}) =>
          LET s  == synapses[ret'.id]
              s2 == synapses'[ret'.id]
              x  == ret'.out[1]
              listed == Occurrences(s.blocked_by, x) > 0
          IN /\ ret'.op = "AddBlocker" =>
                   /\ Occurrences(s2.blocked_by, x) = 1
                   /\ listed => s2 = s
             /\ ret'.op = "RemoveBlocker" =>
                   /\ Occurrences(s2.blocked_by, x) = 0
                   /\ ~listed => s2 = s
             /\ \A y \in 1..MaxID :
                   /\ y # x => Occurrences(s2.blocked_by, y) = Occurrences(s.blocked_by, y)
                   /\ Occurrences(s2.blocked_by, y) <= 1
      ]_vars

\* an AddBlocker of an id that was listed, next to another blocker, at a
\* time later than the last change: updated_at kept its value
C26_Witness ==
    /\ ret.op = "AddBlocker"
    /\ Occurrences(synapses[ret.id].blocked_by, ret.out[1]) = 1
    /\ Len(synapses[ret.id].blocked_by) >= 2
    /\ synapses[ret.id].updated_at < now

----------------------------------------------------------------------------
(* ReleaseExpiredClaims over a map of tasks whose claims differ in age *)

\* every task open, in-progress or done; unclaimed or claimed by agentA; its
\* claim time unset, 0 or 1; the clock at 1
InitSweep ==
    /\ \E st \in [1..MaxID -> {StatusOpen, StatusInProgress, StatusDone}] :
         \E by \in [1..MaxID -> {"", "agentA"}], at \in [1..MaxID -> {NilTime, 0, 1}] :
           synapses = [id \in 1..MaxID |->
                         [NewSynapse(id, "t", 0) EXCEPT
                             !.status = st[id], !.claimed_by = by[id],
                             !.claimed_at = at[id]]]
    /\ nextID = MaxID + 1
    /\ now = 1
    /\ cache = EmptyCache
    /\ disk = NoDisk
    /\ issued = NoneIssued
    /\ ret = NoCall
    /\ OneCaller

NextSweep ==
    \/ Tick
    \/ ReleaseExpiredClaimsStep

SpecSweep == InitSweep /\ [][NextSweep]_vars

\* C25: ReleaseExpiredClaims(timeout) clears both claim fields of every task
\* that has a claimant and whose claim time is unset or at least timeout old,
\* reopening it if it was in-progress; every other task is unchanged; the
\* number returned is the number of tasks released.
C25_ReleasesExactlyExpired ==
    [][ ret'.op = "ReleaseExpiredClaims" =>
          LET expired == {id \in DOMAIN synapses :
                            /\ synapses[id].claimed_by # ""
                            /\ \/ synapses[id].claimed_at = NilTime
                               \/ now - synapses[id].claimed_at >= ret'.timeout}
          IN /\ DOMAIN synapses' = DOMAIN synapses
             /\ ret'.id = Cardinality(expired)
             /\ \A id \in DOMAIN synapses :
                  IF id \in expired
                  THEN /\ synapses'[id].claimed_by = ""
                       /\ synapses'[id].claimed_at = NilTime
                       /\ synapses[id].status = StatusInProgress
                             => synapses'[id].status = StatusOpen
                  ELSE synapses'[id] = synapses[id]
      ]_vars

\* one call released a claim and left a younger one in place
C25_Witness ==
    /\ ret.op = "ReleaseExpiredClaims" /\ ret.id >= 1
    /\ \E id \in DOMAIN synapses :
          /\ synapses[id].claimed_by = "" /\ synapses[id].updated_at = now
          /\ synapses[id].status = StatusOpen
    /\ \E id \in DOMAIN synapses :
          /\ synapses[id].claimed_by # "" /\ synapses[id].claimed_at # NilTime

----------------------------------------------------------------------------
(* The store with dependencies: Create, Delete, the entity methods and      *)
(* update_task's status assignment on stored tasks, and the Ready query.    *)

\* the dependency chain 1 <- 2 <- 3 of open tasks
ChainStore ==
    (1 :> NewSynapse(1, "t", 0))
    @@ (2 :> [NewSynapse(2, "t", 0) EXCEPT !.blocked_by = <<1>>])
    @@ (3 :> [NewSynapse(3, "t", 0) EXCEPT !.blocked_by = <<2>>])

\* a task blocked by two others, as task 4 of the fixture of the cache tests
TwoBlockerStore ==
    (1 :> NewSynapse(1, "t", 0))
    @@ (2 :> NewSynapse(2, "t", 0))
    @@ (3 :> [NewSynapse(3, "t", 0) EXCEPT !.blocked_by = <<1, 2>>])

\* NewJSONLStore, or a store that has loaded the dependency chain or the task
\* with two blockers; the cache holds the fixture of the cache tests
InitReady ==
    /\ \/ synapses = << >> /\ nextID = 1
       \/ synapses = ChainStore /\ nextID = 4
       \/ synapses = TwoBlockerStore /\ nextID = 4
    /\ now = 0
    /\ cache = TestCache
    /\ disk = NoDisk
    /\ issued = NoneIssued
    /\ ret = NoCall
    /\ OneCaller

\* Create that takes the largest stored id plus one instead of the watermark
Create_MaxPlusOne ==
    LET id == IF DOMAIN synapses = {} THEN 1
              ELSE (CHOOSE x \in DOMAIN synapses : \A y \in DOMAIN synapses : y <= x) + 1
    IN  /\ id <= MaxID
        /\ synapses' = (id :> NewSynapse(id, "t", now)) @@ synapses
        /\ nextID' = id + 1
        /\ ret' = Call("Create", id, "", 0, TRUE, "")
        /\ issued' = [all |-> issued.all \cup {id},
                      sinceLoad |-> issued.sinceLoad \cup {id},
                      high |-> IF id > issued.high THEN id ELSE issued.high]
        /\ UNCHANGED <<mu, threads, now, cache, disk>>

\* JSONLStore.Create
Create ==
    /\ nextID <= MaxID
    /\ synapses' = (nextID :> NewSynapse(nextID, "t", now)) @@ synapses
    /\ nextID' = nextID + 1
    /\ ret' = Call("Create", nextID, "", 0, TRUE, "")
    /\ issued' = [all |-> issued.all \cup {nextID},
                  sinceLoad |-> issued.sinceLoad \cup {nextID},
                  high |-> IF nextID > issued.high THEN nextID ELSE issued.high]
    /\ UNCHANGED <<mu, threads, now, cache, disk>>

\* JSONLStore.Delete of a stored id
Delete ==
    \E id \in DOMAIN synapses :
        /\ synapses' = [k \in DOMAIN synapses \ {id} |-> synapses[k]]
        /\ ret' = Call("Delete", id, "", 0, TRUE, "")
        /\ UNCHANGED <<mu, threads, nextID, now, cache, disk, issued>>

\* update_task with a status argument: syn.Status = newStatus
UpdateStatusStep ==
    \E id \in DOMAIN synapses, st \in ValidStatuses :
        /\ synapses' = [synapses EXCEPT ![id].status = st]
        /\ ret' = Call("UpdateStatus", id, "", 0, TRUE, "")
        /\ UNCHANGED <<mu, threads, nextID, now, cache, disk, issued>>

\* JSONLStore.Ready
ReadyStep ==
    \E f \in Ready(synapses) :
        /\ ret' = [Call("Ready", 0, "", 0, TRUE, "") EXCEPT !.out = f]
        /\ UNCHANGED <<mu, threads, synapses, nextID, now, cache, disk, issued>>

\* SQLiteCache.Ready
CacheReadyStep ==
    /\ ret' = [Call("CacheReady", 0, "", 0, TRUE, "") EXCEPT
                  !.out = [i \in 1..Len(CacheReady(cache)) |-> CacheReady(cache)[i].id]]
    /\ UNCHANGED <<mu, threads, synapses, nextID, now, cache, disk, issued>>

NextReady ==
    \/ Create
    \/ Delete
    \/ UpdateStatusStep
    \/ MarkDoneStep
    \/ AddBlockerStep
    \/ RemoveBlockerStep
    \/ ReadyStep
    \/ CacheReadyStep

SpecReady == InitReady /\ [][NextReady]_vars

----------------------------------------------------------------------------
(* Claims about readiness *)

\* C3: a task is in the result of JSONLStore.Ready() if and only if its status
\* is open or blocked and every id in its blocked_by is the id of a stored task
\* whose status is done; each ready task is returned once.
C3_ReadyCharacterisation ==
    ret.op = "Ready" =>
        /\ Range(ret.out) =
             {id \in DOMAIN synapses :
                /\ synapses[id].status \in {StatusOpen, StatusBlocked}
                /\ \A b \in Range(synapses[id].blocked_by) :
                      b \in DOMAIN synapses /\ synapses[b].status = StatusDone}
        /\ \A i, j \in 1..Len(ret.out) : ret.out[i] = ret.out[j] => i = j

\* the chain 1 <- 2 <- 3 with task 1 done: Ready() returned task 2 only
C3_Witness ==
    /\ DOMAIN synapses = {1, 2, 3}
    /\ synapses[1].blocked_by = << >> /\ synapses[1].status = StatusDone
    /\ synapses[2].blocked_by = <<1>> /\ synapses[2].status = StatusOpen
    /\ synapses[3].blocked_by = <<2>> /\ synapses[3].status = StatusOpen
    /\ ret.op = "Ready" /\ ret.out = <<2>>

\* C4: readiness is computed, never stored.  Ready() of the store and of the
\* cache change no task, no watermark and no cache row; a step changes no
\* task but the one it is called on, so a task that becomes ready because its
\* last unfinished blocker became done keeps the status it had, blocked
\* included.
C4_ReadinessNotStored ==
    [][ /\ ret'.op \in {"Ready", "CacheReady"}
             => (synapses' = synapses /\ nextID' = nextID /\ cache' = cache)
        /\ \A id \in DOMAIN synapses \cap DOMAIN synapses' :
              ret'.id # id => synapses'[id] = synapses[id]
      ]_vars

\* Ready() returned a task whose status is blocked and whose blocker is done
C4_Witness ==
    /\ ret.op = "Ready"
    /\ \E i \in 1..Len(ret.out) :
          /\ synapses[ret.out[i]].status = StatusBlocked
          /\ synapses[ret.out[i]].blocked_by # << >>
          /\ \A b \in Range(synapses[ret.out[i]].blocked_by) :
                b \in DOMAIN synapses /\ b # ret.out[i] /\ synapses[b].status = StatusDone

----------------------------------------------------------------------------
(* The store and its durable file: Init, Create, Update, Delete, Save, Load *)

\* NewJSONLStore
InitFile ==
    /\ synapses = << >>
    /\ nextID = 1
    /\ now = 0
    /\ cache = EmptyCache
    /\ disk = NoDisk
    /\ issued = NoneIssued
    /\ ret = NoCall
    /\ OneCaller

\* JSONLStore.Init: creates an empty memory.jsonl when there is none
InitStep ==
    /\ disk' = IF disk.memory.exists THEN disk ELSE [disk EXCEPT !.memory = File(<< >>)]
    /\ ret' = Call("Init", 0, "", 0, TRUE, "")
    /\ UNCHANGED <<mu, threads, synapses, nextID, now, cache, issued>>

\* what a caller has made of a task it got from Get before it calls Update:
\* nothing, every optional field set, or a long note added
Edited(syn) ==
    { syn,
      [syn EXCEPT !.status = StatusInProgress, !.priority = 1, !.blocked_by = <<1>>,
                  !.parent_id = 1, !.assignee = "backend", !.labels = <<"bug">>,
                  !.notes = <<ShortNote>>, !.claimed_by = "agentA", !.claimed_at = 0,
                  !.completed_by = "agentB"],
      [syn EXCEPT !.notes = <<LongNote>>] }

\* JSONLStore.Update of a stored id, after the caller changed the task
UpdateStep ==
    \E id \in DOMAIN synapses : \E syn \in Edited(synapses[id]) :
        /\ synapses' = [synapses EXCEPT ![id] = syn]
        /\ ret' = Call("Update", id, "", 0, TRUE, "")
        /\ UNCHANGED <<mu, threads, nextID, now, cache, disk, issued>>

\* JSONLStore.Save
SaveStep ==
    \E fail \in SaveFailures(synapses) :
        LET r == Save(synapses, disk, fail) IN
        /\ disk' = r.disk
        /\ ret' = [Call("Save", 0, "", 0, r.err = "", "") EXCEPT !.err = r.err]
        /\ UNCHANGED <<mu, threads, synapses, nextID, now, cache, issued>>

\* JSONLStore.Load; ret.id carries the line number of a parse error
LoadStep ==
    \E openFails \in BOOLEAN :
        LET r == Load(synapses, nextID, disk, openFails) IN
        /\ synapses' = r.synapses
        /\ nextID' = r.nextID
        /\ issued' = IF r.read
                      THEN [issued EXCEPT !.sinceLoad = {}, !.high = MaxOf(DOMAIN r.synapses)]
                      ELSE issued
        /\ ret' = [Call("Load", r.line, "", 0, r.err = "", "") EXCEPT !.err = r.err]
        /\ UNCHANGED <<mu, threads, now, cache, disk>>

NextFile ==
    \/ InitStep
    \/ Create
    \/ UpdateStep
    \/ Delete
    \/ SaveStep
    \/ LoadStep

SpecFile == InitFile /\ [][NextFile]_vars

----------------------------------------------------------------------------
(* Claims about the durable store *)

\* C5 as stated: for any sequence of Create, Update, Delete, Save and Load
\* calls on one store, Create never returns an id an earlier Create returned.
C5_NoReuseAcrossLoad ==
    [][ ret'.op = "Create" => ret'.id \notin issued.all ]_vars

\* C5 amended: Create never returns an id that an earlier Create on that
\* store returned since the last Load that read the durable file.
C5_NoReuseSinceLoad ==
    [][ ret'.op = "Create" => ret'.id \notin issued.sinceLoad ]_vars

\* task 1 was created and deleted, and the next Create returned id 2
C5_Witness ==
    /\ ret.op = "Create" /\ ret.id = 2
    /\ 1 \in issued.sinceLoad
    /\ DOMAIN synapses = {2}

\* the fields C6 compares, with blocked_by as a set
Comparable(syn) ==
    [ status |-> syn.status, priority |-> syn.priority, parent_id |-> syn.parent_id,
      assignee |-> syn.assignee, labels |-> syn.labels, notes |-> syn.notes,
      claimed_by |-> syn.claimed_by, claimed_at |-> syn.claimed_at,
      completed_by |-> syn.completed_by, blocked_by |-> Range(syn.blocked_by) ]

\* C6: a Load that directly follows a successful Save (and does not fail to
\* open the file) returns no error and yields a map with the same ids and,
\* for every id, the same fields and the same blocked_by set.
C6_SaveLoadRoundTrip ==
    [][ (ret.op = "Save" /\ ret.ok /\ ret'.op = "Load" /\ ret'.err # "open memory file")
          => /\ ret'.ok
             /\ DOMAIN synapses' = DOMAIN synapses
             /\ \A id \in DOMAIN synapses :
                   Comparable(synapses'[id]) = Comparable(synapses[id])
      ]_vars

\* C8: a Save that fails leaves memory.jsonl exactly as it was; a Save that
\* succeeds leaves one line per task of the map in ascending id order.
C8_SaveAllOrNothing ==
    [][ ret'.op = "Save" =>
          LET before == disk.memory
              after  == disk'.memory
              n      == Len(after.lines)
          IN  IF ret'.ok
              THEN /\ after.exists
                   /\ n = Cardinality(DOMAIN synapses)
                   /\ \A i \in 1..n :
                         /\ Decode(after.lines[i]) = synapses[Decode(after.lines[i]).id]
                         /\ \A j \in 1..(i - 1) :
                               Decode(after.lines[j]).id < Decode(after.lines[i]).id
              ELSE after = before
      ]_vars

\* a Save failed at the rename while memory.jsonl held an older, non-empty
\* state of the map
C8_Witness ==
    /\ ret.op = "Save" /\ ret.err = "rename temp file"
    /\ disk.memory.exists /\ disk.memory.lines # << >>
    /\ disk.memory.lines # EncodeAll(synapses)

----------------------------------------------------------------------------
(* The map operations of the store with every argument: Create with any     *)
(* title, Get, Update and Delete with ids that may be absent, Load of the    *)
(* file an earlier session left, and ReleaseExpiredClaims.                   *)

Titles == {"", "t"}

\* memory.jsonl as an earlier session left it: missing, empty, or the saved
\* tasks of some ids
StoreFiles ==
    {NoFile, File(<< >>)}
    \cup {File(EncodeAll([id \in D |-> NewSynapse(id, "t", 0)])) :
             D \in SUBSET (1..MaxID) \ {{}}}

\* NewJSONLStore in a directory with such a file
InitStore ==
    /\ synapses = << >>
    /\ nextID = 1
    /\ now = 0
    /\ cache = EmptyCache
    /\ \E f \in StoreFiles : disk = [memory |-> f, tmp |-> NoFile]
    /\ issued = NoneIssued
    /\ ret = NoCall
    /\ OneCaller

\* JSONLStore.Create with any title; ret.out carries the title
CreateStep ==
    \E title \in Titles :
        LET r == StoreCreate(synapses, nextID, title, now) IN
        /\ nextID <= MaxID
        /\ synapses' = r.synapses
        /\ nextID' = r.nextID
        /\ ret' = [Call("Create", r.id, "", 0, r.err = "", "") EXCEPT
                      !.out = <<title>>, !.err = r.err]
        /\ issued' = [all |-> issued.all \cup {r.id},
                      sinceLoad |-> issued.sinceLoad \cup {r.id},
                      high |-> IF r.id > issued.high THEN r.id ELSE issued.high]
        /\ UNCHANGED <<mu, threads, now, cache, disk>>

\* JSONLStore.Get with any id; ret.out carries the task returned
GetStep ==
    \E id \in 0..(MaxID + 1) :
        LET r == StoreGet(synapses, id) IN
        /\ ret' = [Call("Get", id, "", 0, r.err = "", "") EXCEPT
                      !.out = r.found, !.err = r.err]
        /\ UNCHANGED <<mu, threads, synapses, nextID, now, cache, disk, issued>>

\* the task a caller passes to Update for an id: the stored task, or a new one
\* when there is none, as it is, claimed, or marked done
UpdateArgs(m, id, t) ==
    LET base == IF id \in DOMAIN m THEN m[id] ELSE NewSynapse(id, "t", t)
    IN {base, Claim(base, "agentA", MaxTimeout, t).syn, MarkDone(base, t)}

\* JSONLStore.Update with any id; ret.out carries the task given
UpdateAnyStep ==
    \E id \in 0..(MaxID + 1) : \E syn \in UpdateArgs(synapses, id, now) :
        LET r == StoreUpdate(synapses, syn) IN
        /\ synapses' = r.synapses
        /\ ret' = [Call("Update", id, "", 0, r.err = "", "") EXCEPT
                      !.out = <<syn>>, !.err = r.err]
        /\ UNCHANGED <<mu, threads, nextID, now, cache, disk, issued>>

\* JSONLStore.Delete with any id
DeleteAnyStep ==
    \E id \in 0..(MaxID + 1) :
        LET r == StoreDelete(synapses, id) IN
        /\ synapses' = r.synapses
        /\ ret' = [Call("Delete", id, "", 0, r.err = "", "") EXCEPT !.err = r.err]
        /\ UNCHANGED <<mu, threads, nextID, now, cache, disk, issued>>

NextStore ==
    \/ CreateStep
    \/ GetStep
    \/ UpdateAnyStep
    \/ DeleteAnyStep
    \/ LoadStep
    \/ ReleaseExpiredClaimsStep

SpecStore == InitStore /\ [][NextStore]_vars

----------------------------------------------------------------------------
(* Claims about the map operations *)

\* C13 as stated: Create("") returns a validation error and leaves the map and
\* the watermark unchanged; Create with a non-empty title succeeds.
C13_EmptyTitleRejected ==
    [][ ret'.op = "Create" =>
          IF ret'.out = <<"">>
          THEN ~ret'.ok /\ synapses' = synapses /\ nextID' = nextID
          ELSE ret'.ok /\ ret'.id \in DOMAIN synapses'
      ]_vars

\* C14: Get, Update and Delete with an id that is not in the map return a
\* not-found error and leave the map and the watermark unchanged; Update with
\* a present id stores the given task under that id and Delete with a present
\* id removes that id, every other entry being unchanged.
C14_NotFoundHandling ==
    [][ ret'.op \in {"Get", "Update", "Delete"} =>
          LET id == ret'.id IN
          /\ nextID' = nextID
          /\ IF id \notin DOMAIN synapses
             THEN ~ret'.ok /\ ret'.err = "not found" /\ synapses' = synapses
             ELSE /\ ret'.ok
                  /\ \A k \in DOMAIN synapses \ {id} :
                        k \in DOMAIN synapses' /\ synapses'[k] = synapses[k]
                  /\ ret'.op = "Get" => (synapses' = synapses /\ ret'.out = <<synapses[id]>>)
                  /\ ret'.op = "Update" =>
                        (DOMAIN synapses' = DOMAIN synapses /\ synapses'[id] = ret'.out[1])
                  /\ ret'.op = "Delete" => DOMAIN synapses' = DOMAIN synapses \ {id}
      ]_vars

\* Update was refused for an id that is not in a map that holds another task
C14_Witness ==
    /\ ret.op = "Update" /\ ~ret.ok /\ ret.err = "not found"
    /\ ret.id \notin DOMAIN synapses
    /\ ret.id > 0
    /\ synapses # << >>

\* C19: each id occurs once in All(), the task stored under key k has id k,
\* and the watermark is greater than every id in the map.
C19_OneLiveCopy ==
    /\ \A k \in DOMAIN synapses : synapses[k].id = k /\ k < nextID
    /\ \A i, j \in 1..Len(All(synapses)) :
          All(synapses)[i].id = All(synapses)[j].id => i = j
    /\ Len(All(synapses)) = Cardinality(DOMAIN synapses)

\* Load has read a file that holds a task for id 2 and none for id 1
C19_Witness ==
    /\ ret.op = "Load" /\ ret.ok
    /\ DOMAIN synapses = {2}
    /\ nextID = 3
    /\ Len(disk.memory.lines) = 1

\* C20 as stated: Create assigns the largest id in the map plus one, 1 when
\* the map is empty.
C20_MaxPlusOne ==
    [][ ret'.op = "Create" => ret'.id = MaxOf(DOMAIN synapses) + 1 ]_vars

\* C20 amended: Create assigns one more than the largest id the map has held
\* since the store was made or last read its file, 1 when it has held none.
C20_WatermarkPlusOne ==
    [][ ret'.op = "Create" => ret'.id = issued.high + 1 ]_vars

\* task 1 came from the file and was deleted, and Create returned id 2
C20_Witness ==
    /\ ret.op = "Create" /\ ret.id = 2
    /\ issued.sinceLoad = {2}
    /\ DOMAIN synapses = {2}
    /\ disk.memory.lines # << >>

----------------------------------------------------------------------------
(* Delete of a blocker.  Task 1 is blocked by task 2, the task titled        *)
(* "blocker"; both are saved.  The operations that follow never edit a       *)
(* blocked_by list and create tasks under other titles, so the task of Init  *)
(* with id 2 is gone exactly when no task has id 2 or the task that has it   *)
(* bears another title.                                                      *)

InitDangling ==
    /\ \E st1 \in {StatusOpen, StatusBlocked}, st2 \in {StatusOpen, StatusDone} :
         synapses = (1 :> [NewSynapse(1, "t", 0) EXCEPT !.status = st1, !.blocked_by = <<2>>])
                    @@ (2 :> [NewSynapse(2, "blocker", 0) EXCEPT !.status = st2])
    /\ nextID = 3
    /\ now = 0
    /\ cache = EmptyCache
    /\ disk = [memory |-> File(EncodeAll(synapses)), tmp |-> NoFile]
    /\ issued = NoneIssued
    /\ ret = NoCall
    /\ OneCaller

NextDangling ==
    \/ Create
    \/ MarkDoneStep
    \/ DeleteAnyStep
    \/ SaveStep
    \/ LoadStep
    \/ ReadyStep

SpecDangling == InitDangling /\ [][NextDangling]_vars

\* the task of Init with this id has been deleted
WasDeleted(m, id) == id \notin DOMAIN m \/ m[id].title # "blocker"

\* Delete(id) that succeeds removes entry id and leaves every other task as
\* it was, blocked_by lists that name id included
DeleteFrame ==
    (ret'.op = "Delete" /\ ret'.ok) =>
        /\ DOMAIN synapses' = DOMAIN synapses \ {ret'.id}
        /\ \A k \in DOMAIN synapses' : synapses'[k] = synapses[k]

\* C38 as stated: Delete(id) leaves every other task unchanged, and from
\* then on an open or blocked task that lists id as a blocker is not
\* returned by Ready(), even if the deleted task was done, until its
\* blocked_by is edited.
C38_DanglingNeverReady ==
    [][ /\ DeleteFrame
        /\ \A k \in DOMAIN synapses' :
              (\E id \in Range(synapses'[k].blocked_by) : WasDeleted(synapses', id))
                 => k \notin ReadyIds(synapses') ]_vars

\* C38, amended: Delete(id) leaves every other task unchanged, and an open
\* or blocked task that lists id as a blocker is not returned by Ready()
\* for as long as no task with that id is in the map.
C38_DanglingWhileAbsent ==
    [][ /\ DeleteFrame
        /\ \A k \in DOMAIN synapses' :
              (\E id \in Range(synapses'[k].blocked_by) : id \notin DOMAIN synapses')
                 => k \notin ReadyIds(synapses') ]_vars

\* Ready() returned nothing: the done blocker of the open task 1 has been
\* deleted and task 1 still names it
C38_Witness ==
    /\ ret.op = "Ready" /\ ret.out = << >>
    /\ DOMAIN synapses = {1}
    /\ synapses[1].status = StatusOpen /\ synapses[1].blocked_by = <<2>>
    /\ disk.memory.lines = << Encode(synapses[1]) >>

----------------------------------------------------------------------------
(* Load of a file that anyone may have written: lines of tasks, with ids    *)
(* repeated, empty lines and malformed lines, into a store that holds the    *)
(* tasks of earlier Creates.                                                 *)

MaxLines == 3

\* the lines of such a file
FileLines ==
    {Encode(NewSynapse(1, "a", 0)), Encode(NewSynapse(1, "b", 0)),
     Encode(NewSynapse(2, "c", 0)), EmptyLine, Malformed}

InitLoad ==
    /\ \E k \in 0..MaxID :
         /\ synapses = [id \in 1..k |-> NewSynapse(id, "old", 0)]
         /\ nextID = k + 1
    /\ now = 0
    /\ cache = EmptyCache
    /\ \E f \in {NoFile} \cup {File(l) : l \in UNION {[1..n -> FileLines] : n \in 0..MaxLines}} :
         disk = [memory |-> f, tmp |-> NoFile]
    /\ issued = NoneIssued
    /\ ret = NoCall
    /\ OneCaller

NextLoad ==
    \/ LoadStep
    \/ CreateStep

SpecLoad == InitLoad /\ [][NextLoad]_vars

\* the tasks a file encodes: for every id the last line that carries it
FileTasks(f) ==
    LET at == {i \in 1..Len(f.lines) : f.lines[i] \notin {EmptyLine, Malformed}}
        ids == {f.lines[i].id : i \in at}
    IN [id \in ids |->
          Decode(f.lines[CHOOSE i \in at :
                            /\ f.lines[i].id = id
                            /\ \A j \in at : f.lines[j].id = id => j <= i])]

\* C27 as stated: after a Load without error the map holds exactly the tasks
\* the file encodes and nothing of the earlier state, and the next id is the
\* largest loaded id plus one, also for an empty and for a missing file.
C27_LoadReplaces ==
    [][ (ret'.op = "Load" /\ ret'.ok) =>
          /\ synapses' = FileTasks(disk.memory)
          /\ nextID' = MaxOf(DOMAIN FileTasks(disk.memory)) + 1 ]_vars

\* a Load without error of a directory with no file, into a store that held
\* a task
C27_Witness ==
    /\ ret.op = "Load" /\ ret.ok
    /\ ~disk.memory.exists
    /\ synapses # << >>

\* C28 as stated: a Load that returns a parse error names the malformed line
\* and leaves the map and the next id as they were before the call.
C28_ParseErrorKeepsState ==
    [][ (ret'.op = "Load" /\ ret'.err = "parse line") =>
          /\ disk.memory.lines[ret'.id] = Malformed
          /\ synapses' = synapses
          /\ nextID' = nextID ]_vars

\* a Load returned a parse error for a line after the first, and the map
\* holds a task of the lines before it
C28_Witness ==
    /\ ret.op = "Load" /\ ret.err = "parse line" /\ ret.id > 1
    /\ \E id \in DOMAIN synapses : synapses[id].title # "old"

----------------------------------------------------------------------------
(* The cache next to a store: Rebuild from the store's tasks, and the Ready  *)
(* queries of both.                                                         *)

\* a task as create_task and update_task leave it: any status, any list of
\* blocker ids (its own id, ids of no task and repeated ids included); task 1
\* is assigned and has no parent, the others are its unassigned children
TaskInput(id, st, bl) ==
    [NewSynapse(id, "t", 0) EXCEPT
        !.status = st, !.blocked_by = bl,
        !.assignee = IF id = 1 THEN "backend" ELSE "",
        !.parent_id = IF id = 1 THEN 0 ELSE 1]

\* the blocker ids that the entries of edges give to task id, from entry i on
RECURSIVE BlockersOf(_, _, _)
BlockersOf(edges, id, i) ==
    IF i > Len(edges) THEN << >>
    ELSE IF edges[i][1] = id THEN <<edges[i][2]>> \o BlockersOf(edges, id, i + 1)
    ELSE BlockersOf(edges, id, i + 1)

\* a store that holds any set of such tasks with at most MaxBlockers blocker
\* entries in all, and the cache with the fixture of the cache tests in it
InitCache ==
    /\ \E D \in SUBSET (1..MaxID) :
         \E st \in [D -> ValidStatuses] :
           \E n \in 0..MaxBlockers :
             \E edges \in [1..n -> D \X (1..MaxID)] :
               synapses = [id \in D |-> TaskInput(id, st[id], BlockersOf(edges, id, 1))]
    /\ nextID = MaxID + 1
    /\ now = 0
    /\ cache = TestCache
    /\ disk = NoDisk
    /\ issued = NoneIssued
    /\ ret = NoCall
    /\ OneCaller

Ids(S) == [i \in 1..Len(S) |-> S[i].id]

\* what Rebuild is called with: the result of All(), the same tasks in
\* descending order, or All() with its first task given a second time
RebuildInputs(m) ==
    LET a == All(m) IN
    {a, [i \in 1..Len(a) |-> a[Len(a) + 1 - i]]}
    \cup (IF a = << >> THEN {} ELSE {Append(a, a[1])})

\* SQLiteCache.Rebuild
RebuildStep ==
    \E S \in RebuildInputs(synapses) :
        LET r == Rebuild(cache, S) IN
        /\ cache' = r.cache
        /\ ret' = [Call("Rebuild", 0, "", 0, r.ok, "") EXCEPT !.out = Ids(S), !.err = r.err]
        /\ UNCHANGED <<mu, threads, synapses, nextID, now, disk, issued>>

NextCache ==
    \/ RebuildStep
    \/ CacheReadyStep

SpecCache == InitCache /\ [][NextCache]_vars

----------------------------------------------------------------------------
(* Claims about the cache *)

\* C2: for any set of tasks with distinct ids, the ids the cache's Ready()
\* returns right after a successful Rebuild from that set are the ids the
\* store's Ready() returns for it.
C2_ReadyParity ==
    [][ (ret.op = "Rebuild" /\ ret.ok /\ ret'.op = "CacheReady")
           => Range(ret'.out) = ReadyIds(synapses) ]_vars

\* the result of every query of the cache
Queries(c) ==
    [ All        |-> CacheAll(c),
      Get        |-> [id \in 0..(MaxID + 1) |-> CacheGet(c, id)],
      Ready      |-> CacheReady(c),
      ByStatus   |-> [st \in ValidStatuses |-> CacheByStatus(c, st)],
      ByAssignee |-> [a \in {"", "backend", "architect"} |-> CacheByAssignee(c, a)],
      GetStats   |-> GetStats(c) ]

\* C9: a Rebuild that returns an error leaves the result of every cache query
\* as it was before the call.
C9_RebuildAtomic ==
    [][ (ret'.op = "Rebuild" /\ ~ret'.ok)
           => (cache' = cache \/ Queries(cache') = Queries(cache)) ]_vars

\* a Rebuild failed on a repeated blocker id after it had inserted a task, and
\* the cache still holds the fixture
C9_Witness ==
    /\ ret.op = "Rebuild" /\ ~ret.ok /\ ret.err = "insert blocker"
    /\ Len(ret.out) = 2
    /\ synapses[ret.out[1]].blocked_by = << >>
    /\ cache = TestCache

\* C10: after a successful Rebuild(S), All() returns one task per task of S
\* in ascending id order with the id, title, status, assignee, parent_id and
\* blocked_by set of that task, and every query returns what it returns after
\* Rebuild(S) on an empty cache, whatever the cache held before.
C10_RebuildFunctionOfInput ==
    (ret.op = "Rebuild" /\ ret.ok) =>
        LET a == CacheAll(cache)
            S == [i \in 1..Len(ret.out) |-> synapses[ret.out[i]]]
        IN
        /\ Len(a) = Len(S)
        /\ \A i \in 1..Len(a) :
              LET syn == synapses[a[i].id] IN
              /\ a[i].id \in Range(ret.out)
              /\ \A j \in 1..(i - 1) : a[j].id < a[i].id
              /\ a[i].title = syn.title
              /\ a[i].status = syn.status
              /\ a[i].assignee = syn.assignee
              /\ a[i].parent_id = syn.parent_id
              /\ Range(a[i].blocked_by) = Range(syn.blocked_by)
        /\ Queries(cache) = Queries(Rebuild(EmptyCache, S).cache)

\* a Rebuild from two tasks given in descending order, one of them blocked by
\* the other and by itself, replaced the fixture
C10_Witness ==
    /\ ret.op = "Rebuild" /\ ret.ok /\ ret.out = <<2, 1>>
    /\ synapses[2].blocked_by = <<2, 1>>
    /\ synapses[1].status = StatusDone
    /\ CacheAll(cache)[2].blocked_by = <<1, 2>>
    /\ cache # TestCache

\* the assignee values a task of the store or a row of the cache can have
Assignees == {"", "backend", "architect", "tech-writer"}

\* C31 as stated: after a successful Rebuild from the store's tasks, All(),
\* ByStatus(s) for every status and ByAssignee(a) for every assignee value,
\* the empty one included, return from the cache the same ids in the same
\* ascending order as the store's query of the same name.
C31_FilterParity ==
    (ret.op = "Rebuild" /\ ret.ok) =>
        /\ Ids(CacheAll(cache)) = Ids(All(synapses))
        /\ \A st \in ValidStatuses :
              Ids(CacheByStatus(cache, st)) = Ids(ByStatus(synapses, st))
        /\ \A a \in Assignees :
              Ids(CacheByAssignee(cache, a)) = Ids(ByAssignee(synapses, a))

\* a Rebuild succeeded from a store with an unassigned task: the store's
\* ByAssignee("") returns it, the cache's returns nothing
C31_Witness ==
    /\ ret.op = "Rebuild" /\ ret.ok
    /\ 2 \in DOMAIN synapses /\ synapses[2].assignee = ""
    /\ 2 \in Range(Ids(ByAssignee(synapses, "")))
    /\ 2 \in Range(Ids(CacheAll(cache)))
    /\ CacheByAssignee(cache, "") = << >>

----------------------------------------------------------------------------
(* A dependency graph built from an empty store by Create and AddBlocker,    *)
(* worked on by Claim, MarkInProgress, MarkDone and MarkDoneBy.              *)

\* NewJSONLStore: no task, the first id is 1
InitGraph ==
    /\ synapses = << >>
    /\ nextID = 1
    /\ now = 0
    /\ cache = EmptyCache
    /\ disk = NoDisk
    /\ issued = NoneIssued
    /\ ret = NoCall
    /\ OneCaller

\* JSONLStore.Create, for one task more than MaxID so that a chain of three
\* tasks exists
CreateGraphStep ==
    LET r == StoreCreate(synapses, nextID, "t", now) IN
    /\ nextID <= MaxID + 1
    /\ synapses' = r.synapses
    /\ nextID' = r.nextID
    /\ ret' = Call("Create", r.id, "", 0, TRUE, "")
    /\ UNCHANGED <<mu, threads, now, cache, disk, issued>>

\* Synapse.AddBlocker on a stored task, naming a task created before it (so
\* the graph stays acyclic), while the store holds at most MaxEdges blocker
\* entries
AddBlockerGraphStep ==
    \E id \in DOMAIN synapses, b \in DOMAIN synapses :
        /\ b < id
        /\ TotalEdges(synapses) <= MaxEdges
        /\ synapses' = [synapses EXCEPT ![id] = AddBlocker(synapses[id], b, now)]
        /\ ret' = [Call("AddBlocker", id, "", 0, TRUE, "") EXCEPT !.out = <<b>>]
        /\ UNCHANGED <<mu, threads, nextID, now, cache, disk, issued>>

\* Synapse.Claim by the one worker of this graph, with the longest timeout
ClaimGraphStep ==
    \E id \in DOMAIN synapses :
        LET r == Claim(synapses[id], "agentA", MaxTimeout, now) IN
        /\ synapses' = [synapses EXCEPT ![id] = r.syn]
        /\ ret' = Call("Claim", id, "agentA", MaxTimeout, r.ok, synapses[id].claimed_by)
        /\ UNCHANGED <<mu, threads, nextID, now, cache, disk, issued>>

\* Synapse.MarkDoneBy by the same worker
MarkDoneByGraphStep ==
    \E id \in DOMAIN synapses :
        /\ synapses' = [synapses EXCEPT ![id] = MarkDoneBy(synapses[id], "agentA", now)]
        /\ ret' = Call("MarkDoneBy", id, "agentA", 0, TRUE, "")
        /\ UNCHANGED <<mu, threads, nextID, now, cache, disk, issued>>

NextGraph ==
    \/ CreateGraphStep
    \/ AddBlockerGraphStep
    \/ ClaimGraphStep
    \/ MarkInProgressStep
    \/ MarkDoneStep
    \/ MarkDoneByGraphStep
    \/ ReadyStep

SpecGraph == InitGraph /\ [][NextGraph]_vars

\* the ids reachable from id through one or more blocked_by entries
RECURSIVE ReachFrom(_, _, _)
ReachFrom(m, front, seen) ==
    LET next == UNION {Range(m[x].blocked_by) : x \in front \cap DOMAIN m} \ seen
    IN IF next = {} THEN seen ELSE ReachFrom(m, next, seen \cup next)

Reachable(m, id) == ReachFrom(m, {id}, {})

\* C33 as stated: every task that Ready() returns has every task reachable
\* from it through blocked_by entries, directly or transitively, in status
\* done.
C33_ReadyTransitive ==
    ret.op = "Ready" =>
        \A id \in Range(ret.out) :
            \A b \in Reachable(synapses, id) :
                b \in DOMAIN synapses /\ synapses[b].status = StatusDone

\* Ready() returned task 3, which is blocked by the done task 2, which is
\* blocked by task 1 that is not done
C33_Witness ==
    /\ ret.op = "Ready" /\ 3 \in Range(ret.out)
    /\ synapses[3].blocked_by = <<2>>
    /\ synapses[2].blocked_by = <<1>> /\ synapses[2].status = StatusDone
    /\ synapses[1].blocked_by = << >> /\ synapses[1].status = StatusOpen

----------------------------------------------------------------------------
(* The store called by several threads.  A method is entered by taking its  *)
(* lock; Load and Save take two steps inside their critical sections, every  *)
(* other method one; the return releases the lock.                          *)

InitLock ==
    /\ synapses = << >>
    /\ nextID = 1
    /\ now = 0
    /\ cache = EmptyCache
    /\ disk = NoDisk
    /\ issued = NoneIssued
    /\ ret = NoCall
    /\ mu = Unlocked
    /\ threads = [t \in Threads |-> Idle]

\* thread t is inside the critical section of op
In(t, op) == threads[t].pc = "in" /\ threads[t].op = op

\* the deferred unlock that runs when thread t returns
Return(t) ==
    /\ mu' = Unlock(mu, LockOf(threads[t].op))
    /\ threads' = [threads EXCEPT ![t] = Idle]

\* s.mu.Lock() or s.mu.RLock() returning in a thread that called a method
EnterStep ==
    \E t \in Threads, op \in Methods :
        /\ threads[t] = Idle
        /\ CanAcquire(mu, LockOf(op))
        /\ mu' = Acquire(mu, LockOf(op))
        /\ threads' = [threads EXCEPT ![t] = [pc |-> "in", op |-> op]]
        /\ UNCHANGED <<synapses, nextID, now, cache, disk, issued, ret>>

\* the body of Create
LockedCreate ==
    \E t \in Threads :
        LET r == StoreCreate(synapses, nextID, "t", now) IN
        /\ In(t, "Create")
        /\ nextID <= MaxID
        /\ synapses' = r.synapses
        /\ nextID' = r.nextID
        /\ Return(t)
        /\ UNCHANGED <<now, cache, disk, issued, ret>>

\* the body of Update
LockedUpdate ==
    \E t \in Threads, id \in 1..MaxID : \E syn \in UpdateArgs(synapses, id, now) :
        /\ In(t, "Update")
        /\ synapses' = StoreUpdate(synapses, syn).synapses
        /\ Return(t)
        /\ UNCHANGED <<nextID, now, cache, disk, issued, ret>>

\* the body of Delete
LockedDelete ==
    \E t \in Threads, id \in 1..MaxID :
        /\ In(t, "Delete")
        /\ synapses' = StoreDelete(synapses, id).synapses
        /\ Return(t)
        /\ UNCHANGED <<nextID, now, cache, disk, issued, ret>>

\* the body of ReleaseExpiredClaims
LockedReleaseExpired ==
    \E t \in Threads, timeout \in Timeouts :
        /\ In(t, "ReleaseExpiredClaims")
        /\ synapses' = ReleaseExpiredClaims(synapses, timeout, now).synapses
        /\ Return(t)
        /\ UNCHANGED <<nextID, now, cache, disk, issued, ret>>

\* the body of Get, All or Ready: the map is read and not written
LockedQuery ==
    \E t \in Threads :
        /\ threads[t].pc = "in" /\ threads[t].op \in {"Get", "All", "Ready"}
        /\ Return(t)
        /\ UNCHANGED <<synapses, nextID, now, cache, disk, issued, ret>>

\* Load up to the reset of the map: a missing file returns at once
LoadReset ==
    \E t \in Threads :
        /\ In(t, "Load")
        /\ IF ~disk.memory.exists
           THEN /\ Return(t)
                /\ UNCHANGED <<synapses, nextID>>
           ELSE /\ synapses' = << >>
                /\ nextID' = 1
                /\ threads' = [threads EXCEPT ![t].pc = "mid"]
                /\ mu' = mu
        /\ UNCHANGED <<now, cache, disk, issued, ret>>

\* the scanner loop of Load, and its return
LoadScan ==
    \E t \in Threads :
        LET r == LoadLines(disk.memory.lines, 1, synapses, nextID) IN
        /\ threads[t] = [pc |-> "mid", op |-> "Load"]
        /\ synapses' = r.synapses
        /\ nextID' = r.nextID
        /\ Return(t)
        /\ UNCHANGED <<now, cache, disk, issued, ret>>

\* Save up to the close of the temporary file: the map is encoded into it
SaveEncode ==
    \E t \in Threads :
        /\ In(t, "Save")
        /\ disk' = [disk EXCEPT !.tmp = File(EncodeAll(synapses))]
        /\ threads' = [threads EXCEPT ![t].pc = "mid"]
        /\ mu' = mu
        /\ UNCHANGED <<synapses, nextID, now, cache, issued, ret>>

\* the rename of Save, and its return; the rename fails when another Save
\* has renamed the temporary file away
SaveRename ==
    \E t \in Threads :
        /\ threads[t] = [pc |-> "mid", op |-> "Save"]
        /\ disk' = IF disk.tmp.exists
                   THEN [memory |-> disk.tmp, tmp |-> NoFile]
                   ELSE disk
        /\ Return(t)
        /\ UNCHANGED <<synapses, nextID, now, cache, issued, ret>>

NextLock ==
    \/ EnterStep
    \/ LockedCreate
    \/ LockedUpdate
    \/ LockedDelete
    \/ LockedReleaseExpired
    \/ LockedQuery
    \/ LoadReset
    \/ LoadScan
    \/ SaveEncode
    \/ SaveRename

SpecLock == InitLock /\ [][NextLock]_vars

\* thread t is between the lock and the unlock of a method
InSection(t) == threads[t].pc # "idle"

\* C15: while Create, Update, Delete, Load or ReleaseExpiredClaims is inside
\* its critical section no other thread is inside a critical section of the
\* store, so the temporary file a Save has written and not yet renamed holds
\* the map as it is, never a map in the middle of a Load or another mutator.
C15_LockDiscipline ==
    /\ \A t, u \in Threads :
          (t # u /\ InSection(t) /\ InSection(u))
             => threads[t].op \notin
                   {"Create", "Update", "Delete", "Load", "ReleaseExpiredClaims"}
    /\ \A t \in Threads :
          (threads[t] = [pc |-> "mid", op |-> "Save"] /\ disk.tmp.exists)
             => disk.tmp.lines = EncodeAll(synapses)

\* a Save and a read query are inside their critical sections together, over
\* a map that holds a task
C15_Witness ==
    \E t, u \in Threads :
        /\ threads[t] = [pc |-> "mid", op |-> "Save"]
        /\ threads[u].pc = "in" /\ threads[u].op \in {"Get", "All", "Ready"}
        /\ synapses # << >>

----------------------------------------------------------------------------
(* Two threads that claim one task: each calls Get, which returns the        *)
(* pointer held in the map, and then Claim on that pointer.  Claim takes no  *)
(* lock, so its reads and its four assignments are steps of their own and    *)
(* the two threads' steps interleave in any order.                           *)

\* the agent id each thread passes
AgentOf(t) == IF t = "t1" THEN "agentA" ELSE "agentB"

\* one fresh task, unclaimed and open; both threads are about to claim it
InitRace ==
    /\ synapses = (1 :> NewSynapse(1, "t", 0))
    /\ nextID = 2
    /\ now = 0
    /\ cache = EmptyCache
    /\ disk = NoDisk
    /\ issued = NoneIssued
    /\ ret = NoCall
    /\ OneCaller

\* JSONLStore.Get under the read lock: the thread now holds the pointer
ClaimGet ==
    \E t \in Threads :
        /\ threads[t] = Idle
        /\ CanAcquire(mu, LockOf("Get"))
        /\ StoreGet(synapses, 1).err = ""
        /\ threads' = [threads EXCEPT ![t] = [pc |-> "got", op |-> "Claim"]]
        /\ ret' = Call("Get", 1, AgentOf(t), 0, TRUE, "")
        /\ UNCHANGED <<mu, synapses, nextID, now, cache, disk, issued>>

\* the two tests at the head of Claim: return false for a done task or an
\* active claim of another agent, or go on to the assignments
ClaimCheck ==
    \E t \in Threads :
        LET s == synapses[1]
            refused == \/ s.status = StatusDone
                       \/ /\ s.claimed_by # "" /\ s.claimed_by # AgentOf(t)
                          /\ s.claimed_at # NilTime
                          /\ now - s.claimed_at < MaxTimeout
        IN
        /\ threads[t].pc = "got"
        /\ threads' = [threads EXCEPT ![t].pc = IF refused THEN "false" ELSE "by"]
        /\ ret' = Call("ClaimCheck", 1, AgentOf(t), MaxTimeout, ~refused, s.claimed_by)
        /\ UNCHANGED <<mu, synapses, nextID, now, cache, disk, issued>>

\* the assignments of Claim in program order, one per step: ClaimedBy,
\* ClaimedAt, Status, UpdatedAt; then return true
ClaimWrite ==
    \E t \in Threads :
        /\ threads[t].pc \in {"by", "at", "status", "updated"}
        /\ synapses' =
              [synapses EXCEPT ![1] =
                  CASE threads[t].pc = "by"      -> [@ EXCEPT !.claimed_by = AgentOf(t)]
                    [] threads[t].pc = "at"      -> [@ EXCEPT !.claimed_at = now]
                    [] threads[t].pc = "status"  -> [@ EXCEPT !.status = StatusInProgress]
                    [] threads[t].pc = "updated" -> [@ EXCEPT !.updated_at = now]]
        /\ threads' =
              [threads EXCEPT ![t].pc =
                  CASE threads[t].pc = "by"      -> "at"
                    [] threads[t].pc = "at"      -> "status"
                    [] threads[t].pc = "status"  -> "updated"
                    [] threads[t].pc = "updated" -> "true"]
        /\ ret' = Call("ClaimWrite", 1, AgentOf(t), MaxTimeout, TRUE, synapses[1].claimed_by)
        /\ UNCHANGED <<mu, nextID, now, cache, disk, issued>>

NextRace ==
    \/ ClaimGet
    \/ ClaimCheck
    \/ ClaimWrite

SpecRace == InitRace /\ [][NextRace]_vars

\* C34 as stated: when two threads Get the same unclaimed open task and call
\* Claim with different agent ids and the same positive timeout, at most one
\* call returns true in every interleaving, and claimed_by afterwards names
\* the agent whose call returned true.
C34_ClaimMutualExclusion ==
    /\ ~ \A t \in Threads : threads[t].pc = "true"
    /\ (\A t \in Threads : threads[t].pc \in {"true", "false"}) =>
          \E t \in Threads : threads[t].pc = "true" /\ synapses[1].claimed_by = AgentOf(t)

\* both calls have returned true
C34_Witness ==
    /\ threads["t1"].pc = "true" /\ threads["t2"].pc = "true"
    /\ synapses[1].claimed_by \in Agents
    /\ synapses[1].status = StatusInProgress

----------------------------------------------------------------------------
(* Save called by two threads at once.  Save holds the read lock, which any  *)
(* number of threads hold together, and every Save uses the path             *)
(* memory.jsonl.tmp.  os.Create opens the file of that name, truncating it   *)
(* if it exists; each Encode is one write at the offset of the thread's own  *)
(* descriptor; os.Rename gives the file the name memory.jsonl.  A descriptor *)
(* stays on its file whatever name the file has: fd is the name the file     *)
(* has now, "tmp", "memory", or "orphan" once it has none.  The offset is    *)
(* counted in lines, as all Saves that overlap encode the same map.          *)

\* a thread outside Save
SaveIdle == [pc |-> "idle", op |-> "", fd |-> "none", off |-> 0]

\* the part of a file that a write beyond its end leaves unwritten
Hole == Malformed

\* a write of one line at offset off (in lines) into a file
WriteAt(lines, off, line) ==
    [i \in 1..(IF off + 1 > Len(lines) THEN off + 1 ELSE Len(lines)) |->
        IF i = off + 1 THEN line
        ELSE IF i <= Len(lines) THEN lines[i]
        ELSE Hole]

\* a store of MaxID tasks, saved before or never saved, and no thread in Save
InitSave ==
    /\ synapses = [id \in 1..MaxID |-> NewSynapse(id, "t", 0)]
    /\ nextID = MaxID + 1
    /\ now = 0
    /\ cache = EmptyCache
    /\ disk \in {NoDisk, [memory |-> File(EncodeAll(synapses)), tmp |-> NoFile]}
    /\ issued = NoneIssued
    /\ ret = NoCall
    /\ mu = Unlocked
    /\ threads = [t \in Threads |-> SaveIdle]

\* s.mu.RLock() and os.Create(tmpPath)
SaveCreate ==
    \E t \in Threads :
        /\ threads[t] = SaveIdle
        /\ CanAcquire(mu, LockOf("Save"))
        /\ mu' = Acquire(mu, LockOf("Save"))
        /\ disk' = [disk EXCEPT !.tmp = File(<< >>)]
        /\ threads' = [threads EXCEPT ![t] = [pc |-> "open", op |-> "Save",
                                              fd |-> "tmp", off |-> 0]]
        /\ ret' = Call("SaveCreate", 0, "", 0, TRUE, "")
        /\ UNCHANGED <<synapses, nextID, now, cache, issued>>

\* encoder.Encode of the next task: one write through the descriptor
SaveWrite ==
    \E t \in Threads :
        LET th == threads[t]
            lines == EncodeAll(synapses)
        IN
        /\ th.pc = "open" /\ th.off < Len(lines)
        /\ disk' = IF th.fd = "orphan" THEN disk
                   ELSE [disk EXCEPT ![th.fd].lines =
                            WriteAt(@, th.off, lines[th.off + 1])]
        /\ threads' = [threads EXCEPT ![t].off = @ + 1]
        /\ ret' = Call("SaveWrite", th.off + 1, "", 0, TRUE, "")
        /\ UNCHANGED <<mu, synapses, nextID, now, cache, issued>>

\* file.Close() and os.Rename(tmpPath, memPath).  The rename succeeds when
\* a file has the temporary name, whichever Save created it, and Save
\* returns nil; it fails when another Save has renamed the file away
SaveRenameStep ==
    \E t \in Threads :
        LET th == threads[t] IN
        /\ th.pc = "open" /\ th.off = Len(EncodeAll(synapses))
        /\ IF disk.tmp.exists
           THEN /\ disk' = [memory |-> disk.tmp, tmp |-> NoFile]
                /\ threads' = [u \in Threads |->
                      IF u = t THEN SaveIdle
                      ELSE IF threads[u].fd = "tmp" THEN [threads[u] EXCEPT !.fd = "memory"]
                      ELSE IF threads[u].fd = "memory" THEN [threads[u] EXCEPT !.fd = "orphan"]
                      ELSE threads[u]]
                /\ mu' = Unlock(mu, LockOf("Save"))
                /\ ret' = Call("Save", 0, "", 0, TRUE, "")
           ELSE /\ disk' = disk
                /\ threads' = [threads EXCEPT ![t].pc = "remove", ![t].fd = "none"]
                /\ mu' = mu
                /\ ret' = Call("SaveRename", 0, "", 0, FALSE, "")
        /\ UNCHANGED <<synapses, nextID, now, cache, issued>>

\* os.Remove(tmpPath) after the failed rename, and the error return
SaveRemove ==
    \E t \in Threads :
        /\ threads[t].pc = "remove"
        /\ disk' = [disk EXCEPT !.tmp = NoFile]
        /\ threads' = [u \in Threads |->
              IF u = t THEN SaveIdle
              ELSE IF threads[u].fd = "tmp" THEN [threads[u] EXCEPT !.fd = "orphan"]
              ELSE threads[u]]
        /\ mu' = Unlock(mu, LockOf("Save"))
        /\ ret' = [Call("Save", 0, "", 0, FALSE, "") EXCEPT !.err = "rename temp file"]
        /\ UNCHANGED <<synapses, nextID, now, cache, issued>>

NextSave ==
    \/ SaveCreate
    \/ SaveWrite
    \/ SaveRenameStep
    \/ SaveRemove

SpecSave == InitSave /\ [][NextSave]_vars

\* C35 as stated: in any interleaving of Saves running at the same time,
\* every Save that returns nil leaves the durable file equal to the complete
\* id-sorted serialisation of the map, and at no point does the durable file
\* hold a truncated, duplicated or interleaved set of lines.
C35_ConcurrentSavesSafe ==
    /\ (ret.op = "Save" /\ ret.ok) => disk.memory = File(EncodeAll(synapses))
    /\ disk.memory.exists => disk.memory.lines = EncodeAll(synapses)

\* a Save has returned nil and the durable file is empty: the other Save
\* truncated the shared temporary file just before the rename
C35_Witness ==
    /\ ret.op = "Save" /\ ret.ok
    /\ disk.memory = File(<< >>)
    /\ synapses # << >>
    /\ \E t \in Threads : threads[t].pc = "open" /\ threads[t].fd = "memory"

----------------------------------------------------------------------------
(* get_next_task over a store of tasks with priorities and assignees *)

\* the assignee argument of get_next_task: absent, or a string
Filters ==
    {[set |-> FALSE, assignee |-> ""]}
    \cup {[set |-> TRUE, assignee |-> a] : a \in {"", "backend"}}

\* getNextTask on the result of Ready(): the id of the task returned, 0 for null
GetNextTask(ready, filter) ==
    IF filter.set
    THEN LET hits == {i \in 1..Len(ready) : ready[i].assignee = filter.assignee}
         IN IF hits = {} THEN 0
            ELSE ready[CHOOSE i \in hits : \A j \in hits : i <= j].id
    ELSE IF Len(ready) > 0 THEN ready[1].id ELSE 0

\* a store of tasks that are open, blocked or done, with any priority, each
\* assigned to "backend" or to nobody
InitNext ==
    /\ \E D \in SUBSET (1..MaxID) :
         \E st \in [D -> {StatusOpen, StatusBlocked, StatusDone}] :
           \E pr \in [D -> 0..MaxPriority] :
             \E as \in [D -> {"", "backend"}] :
               synapses = [id \in D |->
                             [NewSynapse(id, "t", 0) EXCEPT
                                 !.status = st[id], !.priority = pr[id],
                                 !.assignee = as[id]]]
    /\ nextID = MaxID + 1
    /\ now = 0
    /\ cache = EmptyCache
    /\ disk = NoDisk
    /\ issued = NoneIssued
    /\ ret = NoCall
    /\ OneCaller

\* get_next_task; ret.id is the task returned and ret.out carries the filter
GetNextTaskStep ==
    \E f \in Ready(synapses), filter \in Filters :
        LET ready == [i \in 1..Len(f) |-> synapses[f[i]]] IN
        /\ ret' = [Call("get_next_task", GetNextTask(ready, filter), "", 0, TRUE, "")
                      EXCEPT !.out = <<filter>>]
        /\ UNCHANGED <<mu, threads, synapses, nextID, now, cache, disk, issued>>

NextNext ==
    \/ ReadyStep
    \/ GetNextTaskStep

SpecNext == InitNext /\ [][NextNext]_vars

\* C18: Ready() returns tasks in non-increasing priority; get_next_task
\* returns a ready task of the largest priority among the ready tasks (among
\* those with the given assignee when one is given), and null exactly when
\* there is no such task.
C18_PriorityOrdering ==
    /\ ret.op = "Ready" =>
          \A i, j \in 1..Len(ret.out) :
             i < j => synapses[ret.out[i]].priority >= synapses[ret.out[j]].priority
    /\ ret.op = "get_next_task" =>
          LET filter == ret.out[1]
              cand   == {id \in ReadyIds(synapses) :
                            filter.set => synapses[id].assignee = filter.assignee}
          IN IF cand = {} THEN ret.id = 0
             ELSE /\ ret.id \in cand
                  /\ \A c \in cand : synapses[ret.id].priority >= synapses[c].priority

\* get_next_task with an assignee returned that assignee's task although an
\* unassigned ready task has a larger priority
C18_Witness ==
    /\ ret.op = "get_next_task" /\ ret.id # 0
    /\ ret.out[1] = [set |-> TRUE, assignee |-> "backend"]
    /\ \E id \in ReadyIds(synapses) :
          synapses[id].priority > synapses[ret.id].priority

\* C39 as stated: two invocations of Ready() on the same map return the same
\* sequence of ids, the order of tasks of equal priority included, and
\* get_next_task with the same argument names the same task each time it is
\* asked on an unchanged store.
C39_ReadyDeterministic ==
    [][ /\ (ret.op = "Ready" /\ ret'.op = "Ready") => ret'.out = ret.out
        /\ (ret.op = "get_next_task" /\ ret'.op = "get_next_task"
               /\ ret'.out = ret.out) => ret'.id = ret.id ]_vars

\* get_next_task without an assignee answered task 2 while task 1 is ready
\* with the same priority
C39_Witness ==
    /\ ret.op = "get_next_task" /\ ret.id = 2 /\ ~ret.out[1].set
    /\ 1 \in ReadyIds(synapses)
    /\ synapses[1].priority = synapses[2].priority

----------------------------------------------------------------------------
(* The agents' workflow over the MCP server: get_next_task, then claim_task *)
(* on the task it returned.  An agent that holds a claim sends no further   *)
(* request.  No handler of the server calls ReleaseExpiredClaims.           *)

InitExpiry ==
    /\ synapses = [id \in 1..MaxID |-> NewSynapse(id, "t", 0)]
    /\ nextID = MaxID + 1
    /\ now = 0
    /\ cache = EmptyCache
    /\ disk = [memory |-> File(EncodeAll([id \in 1..MaxID |-> NewSynapse(id, "t", 0)])),
               tmp |-> NoFile]
    /\ issued = NoneIssued
    /\ ret = NoCall
    /\ OneCaller

\* claimTask: Get, Claim, and after a successful claim Update and Save, whose
\* failure is only logged
ClaimTask(id, agentID, timeout, fail) ==
    LET g == StoreGet(synapses, id) IN
    IF agentID = "" \/ g.err # ""
    THEN /\ ret' = [Call("claim_task", id, agentID, timeout, FALSE, "") EXCEPT
                       !.err = IF agentID = "" THEN "agent_id is required" ELSE g.err]
         /\ UNCHANGED <<synapses, disk>>
    ELSE \E r \in {Claim(g.found[1], agentID, timeout, now)} :
           \E m \in {[synapses EXCEPT ![id] = r.syn]} :
            /\ synapses' = m
            /\ disk' = IF r.ok THEN Save(m, disk, fail).disk ELSE disk
            /\ ret' = Call("claim_task", id, agentID, timeout, r.ok,
                           g.found[1].claimed_by)

\* an agent that holds no claim claims the task get_next_task has just returned
ClaimTaskStep ==
    \E agentID \in Agents, timeout \in Timeouts :
      \E fail \in SaveFailures(synapses) :
        /\ ret.op = "get_next_task" /\ ret.id # 0
        /\ \A id \in DOMAIN synapses : synapses[id].claimed_by # agentID
        /\ ClaimTask(ret.id, agentID, timeout, fail)
        /\ UNCHANGED <<mu, threads, nextID, now, cache, issued>>

NextExpiry ==
    \/ Tick
    \/ GetNextTaskStep
    \/ ClaimTaskStep

\* time passes, and the agents keep polling and claim what they are offered
SpecExpiry ==
    /\ InitExpiry
    /\ [][NextExpiry]_vars
    /\ WF_vars(Tick)
    /\ WF_vars(GetNextTaskStep)
    /\ WF_vars(ClaimTaskStep)

\* the claim on task id is older than the longest timeout
ExpiredClaim(id) ==
    /\ id \in DOMAIN synapses
    /\ synapses[id].claimed_by # ""
    /\ synapses[id].status = StatusInProgress
    /\ IsClaimExpired(synapses[id], MaxTimeout, now)

\* task id is offered again: Ready() holds it, or get_next_task returned it
Obtainable(id) ==
    \/ id \in ReadyIds(synapses)
    \/ ret.op = "get_next_task" /\ ret.id = id

\* C17 as stated: a task whose claim has timed out, its claimer silent, is
\* eventually offered again to the agents that poll get_next_task.
C17_ExpiredClaimReturns ==
    \A id \in 1..MaxID : ExpiredClaim(id) ~> Obtainable(id)

\* get_next_task answers null although the only tasks left are tasks whose
\* claims have timed out
C17_Witness ==
    /\ ret.op = "get_next_task" /\ ret.id = 0 /\ ~ret.out[1].set
    /\ \E id \in DOMAIN synapses : ExpiredClaim(id)

----------------------------------------------------------------------------
(* The CLI next to the MCP server.  A CLI command is a process of its own:  *)
(* getStore loads memory.jsonl into a new store, the command works on that  *)
(* store, saveStore saves it.  The process that runs next starts from the   *)
(* file, so the map of a command that saved is the map the next one sees.   *)

\* the directory after `synapse add t`: one open task, saved
InitCli ==
    /\ synapses = (1 :> NewSynapse(1, "t", 0))
    /\ nextID = 2
    /\ now = 0
    /\ cache = EmptyCache
    /\ disk = [memory |-> File(EncodeAll((1 :> NewSynapse(1, "t", 0)))), tmp |-> NoFile]
    /\ issued = NoneIssued
    /\ ret = NoCall
    /\ OneCaller

\* cmdClaim: getStore, Get, MarkInProgress, saveStore; ret.ok tells that the
\* command ran to its end
CmdClaimStep ==
    \E id \in 1..MaxID, openFails \in BOOLEAN :
      \E fail \in SaveFailures(synapses) :
        LET l == Load(<< >>, 1, disk, openFails)
            g == StoreGet(l.synapses, id)
            m == [l.synapses EXCEPT ![id] = MarkInProgress(g.found[1], now)]
            sv == Save(m, disk, fail)
        IN /\ IF l.err # ""
              THEN /\ ret' = [Call("cmdClaim", id, "", 0, FALSE, "") EXCEPT
                                 !.err = "error loading store"]
                   /\ UNCHANGED <<synapses, nextID, disk>>
              ELSE IF g.err # ""
              THEN /\ ret' = [Call("cmdClaim", id, "", 0, FALSE, "") EXCEPT !.err = g.err]
                   /\ synapses' = l.synapses
                   /\ nextID' = l.nextID
                   /\ disk' = disk
              ELSE /\ ret' = [Call("cmdClaim", id, "", 0, sv.err = "", "") EXCEPT
                                 !.err = IF sv.err = "" THEN "" ELSE "error saving store"]
                   /\ synapses' = IF sv.err = "" THEN m ELSE l.synapses
                   /\ nextID' = l.nextID
                   /\ disk' = sv.disk
           /\ UNCHANGED <<mu, threads, now, cache, issued>>

\* claim_task with any id, agent and timeout
ClaimTaskAnyStep ==
    \E id \in 1..MaxID, agentID \in Agents, timeout \in Timeouts :
      \E fail \in SaveFailures(synapses) :
        /\ ClaimTask(id, agentID, timeout, fail)
        /\ UNCHANGED <<mu, threads, nextID, now, cache, issued>>

NextCli ==
    \/ Tick
    \/ CmdClaimStep
    \/ ClaimTaskAnyStep

SpecCli == InitCli /\ [][NextCli]_vars

\* C22 as stated: after `claim <id>` has run to its end the task is
\* in-progress, and a claim_task on it before the timeout has passed fails.
C22_CliClaimLocks ==
    [][ (/\ ret.op = "cmdClaim" /\ ret.ok
         /\ ret'.op = "claim_task" /\ ret'.id = ret.id /\ ret'.timeout > 0)
        => (synapses[ret.id].status = StatusInProgress /\ ~ret'.ok) ]_vars

\* `claim <id>` has run to its end and left the task in-progress with no
\* claimant
C22_Witness ==
    /\ ret.op = "cmdClaim" /\ ret.ok
    /\ synapses[ret.id].status = StatusInProgress
    /\ synapses[ret.id].claimed_by = ""

----------------------------------------------------------------------------
(* The coordination tools called by several agents on one saved task:        *)
(* claim_task, release_claim, and the store's ReleaseExpiredClaims.          *)

\* releaseClaim: Get, ReleaseClaim, Update, and Save, whose failure is only
\* logged.  The tool takes the task id alone; agentID is the agent that
\* sent the request, which the handler never learns
ReleaseClaimTool(id, agentID, fail) ==
    LET g == StoreGet(synapses, id) IN
    IF g.err # ""
    THEN /\ ret' = [Call("release_claim", id, agentID, 0, FALSE, "") EXCEPT !.err = g.err]
         /\ UNCHANGED <<synapses, disk>>
    ELSE LET m == [synapses EXCEPT ![id] = ReleaseClaim(g.found[1], now)] IN
         /\ synapses' = m
         /\ disk' = Save(m, disk, fail).disk
         /\ ret' = Call("release_claim", id, agentID, 0, TRUE, g.found[1].claimed_by)

\* release_claim with any id, sent by any agent
ReleaseClaimToolStep ==
    \E id \in 1..MaxID, agentID \in Agents :
      \E fail \in SaveFailures(synapses) :
        /\ ReleaseClaimTool(id, agentID, fail)
        /\ UNCHANGED <<mu, threads, nextID, now, cache, issued>>

NextTools ==
    \/ Tick
    \/ ClaimTaskAnyStep
    \/ ReleaseClaimToolStep
    \/ ReleaseExpiredClaimsStep

SpecTools == InitCli /\ [][NextTools]_vars

\* C36 as stated: while an agent holds an unexpired claim on a task, no
\* claim_task or release_claim sent by a different agent, and no
\* ReleaseExpiredClaims with the same timeout, clears or replaces claimed_by.
\* The claim counts as unexpired under the timeout the call passes;
\* release_claim passes none, and for it the claim is younger than every
\* positive timeout.
C36_OnlyHolderEndsClaim ==
    [][ \A id \in DOMAIN synapses :
          LET s == synapses[id]
              T == IF ret'.op = "release_claim" THEN 1 ELSE ret'.timeout
          IN
          ( /\ s.claimed_by # ""
            /\ ret'.op \in {"claim_task", "release_claim", "ReleaseExpiredClaims"}
            /\ ret'.agent # s.claimed_by
            /\ T > 0
            /\ ~IsClaimExpired(s, T, now) )
          => synapses'[id].claimed_by = s.claimed_by ]_vars

\* agentB's release_claim has cleared the claim agentA took at this very time
C36_Witness ==
    /\ ret.op = "release_claim" /\ ret.ok
    /\ ret.agent = "agentB" /\ ret.holder = "agentA"
    /\ synapses[ret.id].claimed_by = ""
    /\ synapses[ret.id].status = StatusOpen
    /\ now = 0

----------------------------------------------------------------------------
(* Workers on a well-formed graph.  Each worker is an agent of the MCP       *)
(* server that asks get_next_task, calls claim_task on the task it was       *)
(* given and, when the claim succeeded, complete_task_as; then it asks       *)
(* again.  The server handles one request at a time.                         *)

\* completeTaskAs: Get, MarkDoneBy, Update, and Save, whose failure is only
\* logged
CompleteTaskAs(id, agentID, fail) ==
    LET g == StoreGet(synapses, id) IN
    IF agentID = "" \/ g.err # ""
    THEN /\ ret' = [Call("complete_task_as", id, agentID, 0, FALSE, "") EXCEPT
                       !.err = IF agentID = "" THEN "agent_id is required" ELSE g.err]
         /\ UNCHANGED <<synapses, disk>>
    ELSE \E m \in {[synapses EXCEPT ![id] = MarkDoneBy(g.found[1], agentID, now)]} :
         /\ synapses' = m
         /\ disk' = Save(m, disk, fail).disk
         /\ ret' = Call("complete_task_as", id, agentID, 0, TRUE, g.found[1].claimed_by)

\* a saved store of unclaimed tasks, each open, blocked or done, whose
\* blocked_by lists name stored tasks only and form no cycle; no worker has
\* a task
InitWorkers ==
    /\ \E D \in {1..k : k \in 0..MaxID} :
         \E st \in [D -> {StatusOpen, StatusBlocked, StatusDone}] :
           \E bl \in [D -> SUBSET D] :
             /\ synapses = [id \in D |->
                              [NewSynapse(id, "t", 0) EXCEPT
                                  !.status = st[id], !.blocked_by = SortedSeq(bl[id])]]
             /\ \A id \in D : id \notin Reachable(synapses, id)
    /\ nextID = MaxID + 1
    /\ now = 0
    /\ cache = EmptyCache
    /\ disk = [memory |-> File(EncodeAll(synapses)), tmp |-> NoFile]
    /\ issued = NoneIssued
    /\ ret = NoCall
    /\ mu = Unlocked
    /\ threads = [t \in Threads |-> [pc |-> "idle", op |-> "", task |-> 0]]

\* get_next_task without an assignee: the first task of Ready(), or null
WorkerTake(t) ==
    \E f \in Ready(synapses) :
        LET id == GetNextTask([i \in 1..Len(f) |-> synapses[f[i]]],
                              [set |-> FALSE, assignee |-> ""])
        IN
        /\ threads[t].pc = "idle"
        /\ threads' = [threads EXCEPT ![t] =
                          IF id = 0 THEN @ ELSE [pc |-> "took", op |-> "claim_task", task |-> id]]
        /\ ret' = Call("get_next_task", id, AgentOf(t), 0, TRUE, "")
        /\ UNCHANGED <<mu, synapses, nextID, now, cache, disk, issued>>

\* claim_task on the task the worker was given; the Save of the handler
\* succeeds
WorkerClaim(t) ==
    \E fail \in {[at |-> "", k |-> 0]} :
        /\ threads[t].pc = "took"
        /\ ClaimTask(threads[t].task, AgentOf(t), MaxTimeout, fail)
        /\ threads' = [threads EXCEPT ![t] =
                          IF ret'.ok THEN [@ EXCEPT !.pc = "claimed", !.op = "complete_task_as"]
                          ELSE [pc |-> "idle", op |-> "", task |-> 0]]
        /\ UNCHANGED <<mu, nextID, now, cache, issued>>

\* complete_task_as on the task the worker has claimed; the Save of the
\* handler succeeds
WorkerDone(t) ==
    \E fail \in {[at |-> "", k |-> 0]} :
        /\ threads[t].pc = "claimed"
        /\ CompleteTaskAs(threads[t].task, AgentOf(t), fail)
        /\ threads' = [threads EXCEPT ![t] = [pc |-> "idle", op |-> "", task |-> 0]]
        /\ UNCHANGED <<mu, nextID, now, cache, issued>>

Worker(t) == WorkerTake(t) \/ WorkerClaim(t) \/ WorkerDone(t)

NextWorkers == \E t \in Threads : Worker(t)

\* every worker keeps sending its next request
SpecWorkers ==
    /\ InitWorkers
    /\ [][NextWorkers]_vars
    /\ \A t \in Threads : WF_vars(Worker(t))

AllDone == \A id \in DOMAIN synapses : synapses[id].status = StatusDone

\* C37: in a store whose blocked_by relation is acyclic and names stored ids
\* only, Ready() is non-empty whenever every task is open, blocked or done
\* and some task is not done; and workers that keep taking a task from
\* Ready(), claiming it and marking it done bring every task to done, where
\* it stays.
C37_Progress ==
    /\ [] ( ( /\ \A id \in DOMAIN synapses :
                    synapses[id].status \in {StatusOpen, StatusBlocked, StatusDone}
              /\ ~AllDone )
            => ReadyIds(synapses) # {} )
    /\ <>[] AllDone

\* the last of two tasks, one blocked by the other, has been completed; each
\* worker has completed one of them
C37_Witness ==
    /\ ret.op = "complete_task_as" /\ ret.ok
    /\ AllDone
    /\ DOMAIN synapses = {1, 2}
    /\ synapses[1].blocked_by = <<2>>
    /\ synapses[1].completed_by = "agentA" /\ synapses[2].completed_by = "agentB"
    /\ disk.memory.lines = EncodeAll(synapses)

----------------------------------------------------------------------------
(* The single-row operations of the cache on the fixture of the cache tests *)

\* setupTestCache, or the cache after Rebuild(createTestSynapses())
InitCacheRows ==
    /\ synapses = << >>
    /\ nextID = 1
    /\ now = 0
    /\ cache \in {EmptyCache, TestCache}
    /\ disk = NoDisk
    /\ issued = NoneIssued
    /\ ret = NoCall
    /\ OneCaller

\* the tasks given to Insert and Update: those of the fixture, task 2 and
\* task 4 edited at a later time with other blockers, two tasks whose
\* blocked_by lists an id twice, and task 5 with a priority, a label and the
\* claim of an agent
CacheInputs ==
    Range(TestSynapses)
    \cup { [TestSynapses[2] EXCEPT !.title = "edited", !.status = StatusDone,
                                   !.assignee = "", !.blocked_by = <<3>>,
                                   !.created_at = 1, !.updated_at = 1],
           [TestSynapses[4] EXCEPT !.parent_id = 1, !.blocked_by = <<2>>,
                                   !.created_at = 1, !.updated_at = 1],
           [TestSynapses[2] EXCEPT !.blocked_by = <<1, 1>>],
           [TestSynapses[3] EXCEPT !.blocked_by = <<1, 2, 1>>],
           [TestSynapses[5] EXCEPT !.priority = 1, !.labels = <<"docs">>,
                                   !.claimed_by = "agentA", !.claimed_at = 0] }

\* SQLiteCache.Insert; ret.out carries the task given
CacheInsertStep ==
    \E syn \in CacheInputs :
        LET r == CacheInsert(cache, syn) IN
        /\ cache' = r.cache
        /\ ret' = [Call("CacheInsert", syn.id, "", 0, r.ok, "") EXCEPT
                      !.out = <<syn>>, !.err = r.err]
        /\ UNCHANGED <<mu, threads, synapses, nextID, now, disk, issued>>

\* SQLiteCache.Update; ret.out carries the task given
CacheUpdateStep ==
    \E syn \in CacheInputs :
        LET r == CacheUpdate(cache, syn) IN
        /\ cache' = r.cache
        /\ ret' = [Call("CacheUpdate", syn.id, "", 0, r.ok, "") EXCEPT
                      !.out = <<syn>>, !.err = r.err]
        /\ UNCHANGED <<mu, threads, synapses, nextID, now, disk, issued>>

\* SQLiteCache.Delete of any id
CacheDeleteStep ==
    \E id \in 0..Len(TestSynapses) :
        LET r == CacheDelete(cache, id) IN
        /\ cache' = r.cache
        /\ ret' = [Call("CacheDelete", id, "", 0, r.ok, "") EXCEPT !.err = r.err]
        /\ UNCHANGED <<mu, threads, synapses, nextID, now, disk, issued>>

\* SQLiteCache.GetStats; ret.out carries the three counts
GetStatsStep ==
    /\ ret' = [Call("GetStats", 0, "", 0, TRUE, "") EXCEPT
                  !.out = <<GetStats(cache).SynapseCount, GetStats(cache).BlockerCount,
                            GetStats(cache).ReadyCount>>]
    /\ UNCHANGED <<mu, threads, synapses, nextID, now, cache, disk, issued>>

NextCacheRows ==
    \/ CacheInsertStep
    \/ CacheUpdateStep
    \/ CacheDeleteStep
    \/ GetStatsStep

SpecCacheRows == InitCacheRows /\ [][NextCacheRows]_vars

\* C16 as stated: after cache.Delete(id) succeeds the blockers table holds no
\* edge whose synapse_id or blocker_id is id.
C16_DeleteCascades ==
    [][ (ret'.op = "CacheDelete" /\ ret'.ok)
           => \A e \in cache'.blockers : e[1] # ret'.id /\ e[2] # ret'.id ]_vars

\* C29: after a successful cache.Update(t), Get(t.id) returns t's title,
\* status, assignee and parent_id and the blockers of t as a set, with the
\* created_at of the row as it was; the rows and the edges of the other tasks
\* are as before.  Update of an id that has no row fails and changes nothing.
C29_UpdateReplaces ==
    [][ ret'.op = "CacheUpdate" =>
          LET t == ret'.out[1]
              g == CacheGet(cache', t.id)
          IN /\ t.id \notin DOMAIN cache.synapses => ~ret'.ok
             /\ ~ret'.ok => cache' = cache
             /\ ret'.ok =>
                  /\ g.ok
                  /\ g.syn.title = t.title /\ g.syn.status = t.status
                  /\ g.syn.assignee = t.assignee /\ g.syn.parent_id = t.parent_id
                  /\ Range(g.syn.blocked_by) = Range(t.blocked_by)
                  /\ g.syn.created_at = cache.synapses[t.id].created_at
                  /\ DOMAIN cache'.synapses = DOMAIN cache.synapses
                  /\ \A k \in DOMAIN cache.synapses \ {t.id} :
                        cache'.synapses[k] = cache.synapses[k]
                  /\ {e \in cache'.blockers : e[1] # t.id}
                        = {e \in cache.blockers : e[1] # t.id}
      ]_vars

\* task 2 was updated to the edited task: its edge to 1 is gone, its edge to
\* 3 is there, the edges of task 4 are in place and created_at is the old one
C29_Witness ==
    /\ ret.op = "CacheUpdate" /\ ret.ok /\ ret.id = 2
    /\ {e \in cache.blockers : e[1] = 2} = {<<2, 3>>}
    /\ <<4, 1>> \in cache.blockers
    /\ cache.synapses[2].title = "edited"
    /\ cache.synapses[2].created_at # ret.out[1].created_at

\* C30: an Insert of an id that has a row, and an Insert or Update of a task
\* whose blocked_by lists an id twice, return an error; after every Insert or
\* Update that returns an error both tables are exactly as before the call.
C30_RowOperationsTransactional ==
    [][ (ret'.op \in {"CacheInsert", "CacheUpdate"}) =>
          LET t == ret'.out[1]
              twice == \E x \in Range(t.blocked_by) : Occurrences(t.blocked_by, x) > 1
              present == t.id \in DOMAIN cache.synapses
          IN /\ (ret'.op = "CacheInsert" /\ (present \/ twice)) => ~ret'.ok
             /\ (ret'.op = "CacheUpdate" /\ twice) => ~ret'.ok
             /\ ~ret'.ok => (ret'.err # "" /\ cache' = cache)
      ]_vars

\* an Insert of a task with no row failed at its second blocker, after the
\* row and an edge had been written: neither is in the tables
C30_Witness ==
    /\ ret.op = "CacheInsert" /\ ret.err = "insert blocker"
    /\ ret.id \notin DOMAIN cache.synapses
    /\ \A e \in cache.blockers : e[1] # ret.id

\* C32 as stated: Insert(t) followed by Get(t.id) returns a task equal to t
\* in every field of the task entity, priority, labels, notes, claimed_by,
\* claimed_at and completed_by included, blocked_by compared as a set.
C32_InsertGetRoundTrip ==
    (ret.op = "CacheInsert" /\ ret.ok) =>
        LET t == ret.out[1]
            g == CacheGet(cache, t.id)
        IN
        /\ g.ok
        /\ Range(g.syn.blocked_by) = Range(t.blocked_by)
        /\ [g.syn EXCEPT !.blocked_by = << >>] = [t EXCEPT !.blocked_by = << >>]

\* a claimed task with a priority and a label was inserted, and Get returns
\* it with priority 0, no label and no claimant
C32_Witness ==
    /\ ret.op = "CacheInsert" /\ ret.ok
    /\ ret.out[1].priority = 1 /\ ret.out[1].claimed_by = "agentA"
    /\ CacheGet(cache, ret.id).ok
    /\ CacheGet(cache, ret.id).syn.priority = 0
    /\ CacheGet(cache, ret.id).syn.claimed_by = ""
    /\ CacheGet(cache, ret.id).syn.labels = << >>

----------------------------------------------------------------------------
(* The cache kept in step with the store: every Create, Update and Delete   *)
(* of the store that succeeds is followed by the Insert, Update or Delete   *)
(* of the same task in the cache.                                           *)

InitMirror ==
    /\ synapses = << >>
    /\ nextID = 1
    /\ now = 0
    /\ cache = EmptyCache
    /\ disk = NoDisk
    /\ issued = NoneIssued
    /\ ret = NoCall
    /\ OneCaller

\* store.Create, then cache.Insert of the task it returned
MirrorCreate ==
    LET r == StoreCreate(synapses, nextID, "t", now)
        c == CacheInsert(cache, r.synapses[r.id])
    IN /\ nextID <= MaxID
       /\ synapses' = r.synapses
       /\ nextID' = r.nextID
       /\ cache' = c.cache
       /\ ret' = [Call("MirrorCreate", r.id, "", 0, c.ok, "") EXCEPT !.err = c.err]
       /\ UNCHANGED <<mu, threads, now, disk, issued>>

\* what a caller does to the task Get returned before it calls Update
Edits(s, t) ==
    {MarkDone(s, t), MarkBlocked(s, t)}
    \cup {AddBlocker(s, b, t) : b \in {x \in 1..MaxID : Len(s.blocked_by) < MaxEdges}}
    \cup {RemoveBlocker(s, b, t) : b \in 1..MaxID}

\* store.Get, an edit, store.Update, then cache.Update of the same task
MirrorUpdate ==
    \E id \in DOMAIN synapses : \E syn \in Edits(synapses[id], now) :
        LET r == StoreUpdate(synapses, syn)
            c == CacheUpdate(cache, syn)
        IN /\ synapses' = r.synapses
           /\ cache' = c.cache
           /\ ret' = [Call("MirrorUpdate", id, "", 0, c.ok, "") EXCEPT !.err = c.err]
           /\ UNCHANGED <<mu, threads, nextID, now, disk, issued>>

\* store.Delete, then cache.Delete of the same id
MirrorDelete ==
    \E id \in DOMAIN synapses :
        LET r == StoreDelete(synapses, id)
            c == CacheDelete(cache, id)
        IN /\ synapses' = r.synapses
           /\ cache' = c.cache
           /\ ret' = [Call("MirrorDelete", id, "", 0, c.ok, "") EXCEPT !.err = c.err]
           /\ UNCHANGED <<mu, threads, nextID, now, disk, issued>>

NextMirror ==
    \/ Tick
    \/ MirrorCreate
    \/ MirrorUpdate
    \/ MirrorDelete

SpecMirror == InitMirror /\ [][NextMirror]_vars

\* C21 as stated: after every mirrored step cache.All() lists the ids of
\* store.All() with the same blocked_by sets, and cache.Ready() returns the
\* ids store.Ready() returns.
C21_MirrorInSync ==
    /\ DOMAIN cache.synapses = DOMAIN synapses
    /\ \A i \in 1..Len(CacheAll(cache)) :
          Range(CacheAll(cache)[i].blocked_by)
             = Range(synapses[CacheAll(cache)[i].id].blocked_by)
    /\ CacheReadyIds(cache) = ReadyIds(synapses)

\* a blocker was deleted from both: the store keeps the blocked task out of
\* Ready(), the cache returns it
C21_Witness ==
    /\ ret.op = "MirrorDelete" /\ ret.ok
    /\ \E id \in DOMAIN synapses :
          /\ ret.id \in Range(synapses[id].blocked_by)
          /\ id \in CacheReadyIds(cache)
          /\ id \notin ReadyIds(synapses)

====
